---- MODULE Spec2Model ----
(***************************************************************************)
(* The small-step evaluator of agentlisp (src/eval.py) over the expression *)
(* model of src/ast.py, driven by a caller that steps a loaded program.    *)
(***************************************************************************)
EXTENDS Integers, Sequences, FiniteSets, TLC

VARIABLES program, state, prev, ret, op, handler, handler_calls, effects, steps

\* The objects Env works on: the dicts in memory, the Env objects made so
\* far, and the last call of an Env method.
VARIABLES heap, envs, call

\* The fields of a ChatbotSession next to its state: step_count, and what the
\* last call of execute_run_tool did.
VARIABLES step_count, run

run_vars == <<program, state, prev, ret, op, handler, handler_calls, effects, steps>>

env_vars == <<heap, envs, call>>

session_vars == <<step_count, run>>

vars == <<program, state, prev, ret, op, handler, handler_calls, effects, steps,
          heap, envs, call, step_count, run>>

(***************************************************************************)
(* Bounds of the model.                                                    *)
(***************************************************************************)
\* The caller performs at most MaxSteps transitions of the machine.
MaxSteps == 14

\* At most MaxEnvs Env objects are made from one another.
MaxEnvs == 3

(***************************************************************************)
(* Python values.  Value = Union[int, str]; None is the absent value.      *)
(***************************************************************************)
None == [tag |-> "None"]

IntV(n) == [tag |-> "int", value |-> n]

StrV(s) == [tag |-> "str", value |-> s]

RuntimeError(msg) == [tag |-> "RuntimeError", msg |-> msg]

IsError(r) == r.tag = "RuntimeError"

Digit(d) == CASE d = 0 -> "0" [] d = 1 -> "1" [] d = 2 -> "2" [] d = 3 -> "3"
              [] d = 4 -> "4" [] d = 5 -> "5" [] d = 6 -> "6" [] d = 7 -> "7"
              [] d = 8 -> "8" [] d = 9 -> "9"

RECURSIVE Decimal(_)
Decimal(n) == IF n < 10 THEN Digit(n) ELSE Decimal(n \div 10) \o Digit(n % 10)

\* str(value): decimal digits for an int, the text itself for a str.
str(value) ==
    IF value.tag = "int"
    THEN IF value.value < 0 THEN "-" \o Decimal(0 - value.value)
                            ELSE Decimal(value.value)
    ELSE value.value

\* len(x) of a Python list
len(xs) == Len(xs)

\* xs[1:] of a Python list
Rest(xs) == SubSeq(xs, 2, Len(xs))

(***************************************************************************)
(* The expression model (lisp_ast).                                        *)
(***************************************************************************)
IntLiteral(n) == [tag |-> "IntLiteral", value |-> n]

StringLiteral(s) == [tag |-> "StringLiteral", value |-> s]

FunctionCall(func_name, args) ==
    [tag |-> "FunctionCall", func_name |-> func_name, args |-> args]

IfExpr(condition, then_expr, else_expr) ==
    [tag |-> "IfExpr", condition |-> condition,
     then_expr |-> then_expr, else_expr |-> else_expr]

Variable(name) == [tag |-> "Variable", name |-> name]

LetBinding(name, value) == [tag |-> "LetBinding", name |-> name, value |-> value]

LetExpr(bindings, body) == [tag |-> "LetExpr", bindings |-> bindings, body |-> body]

WriteExpr(expr) == [tag |-> "WriteExpr", expr |-> expr]

ReadExpr == [tag |-> "ReadExpr"]

TellExpr(expr) == [tag |-> "TellExpr", expr |-> expr]

AskExpr(expr) == [tag |-> "AskExpr", expr |-> expr]

FunctionDef(name, params, body) ==
    [tag |-> "FunctionDef", name |-> name, params |-> params, body |-> body]

Program(functions) == [functions |-> functions]

\* Program.get_main: the first function named main, None without one.
\* The last function named main instead of the first.
get_main_last(prog) ==
    LET idx == {i \in DOMAIN prog.functions : prog.functions[i].name = "main"}
    IN IF idx = {} THEN None
       ELSE prog.functions[CHOOSE i \in idx : \A j \in idx : j <= i]

get_main(prog) ==
    LET idx == {i \in DOMAIN prog.functions : prog.functions[i].name = "main"}
    IN IF idx = {} THEN None
       ELSE prog.functions[CHOOSE i \in idx : \A j \in idx : i <= j]

(***************************************************************************)
(* Env: bindings (name -> Value) and the function table.                   *)
(***************************************************************************)
Env(bindings, functions) == [bindings |-> bindings, functions |-> functions]

EmptyDict == [n \in {} |-> None]

\* d[name] = value on a dict
DictSet(d, name, value) ==
    [n \in DOMAIN d \cup {name} |-> IF n = name THEN value ELSE d[n]]

\* A lookup that answers the empty string for a name that is not bound.
lookup_or_empty(env, name) ==
    IF name \notin DOMAIN env.bindings
    THEN StrV("")
    ELSE env.bindings[name]

lookup(env, name) ==
    IF name \notin DOMAIN env.bindings
    THEN RuntimeError("Undefined variable: " \o name)
    ELSE env.bindings[name]

\* An extend that returns an Env without functions.
extend_without_functions(env, name, value) ==
    LET new_bindings == DictSet(env.bindings, name, value)
    IN Env(new_bindings, EmptyDict)

extend(env, name, value) ==
    LET new_bindings == DictSet(env.bindings, name, value)
    IN Env(new_bindings, env.functions)

\* for name, value in zip(names, values): new_bindings[name] = value
RECURSIVE ZipAssign(_, _, _, _)
ZipAssign(d, names, values, i) ==
    IF i > Len(names) \/ i > Len(values) THEN d
    ELSE ZipAssign(DictSet(d, names[i], values[i]), names, values, i + 1)

extend_many(env, names, values) ==
    LET new_bindings == ZipAssign(env.bindings, names, values, 1)
    IN Env(new_bindings, env.functions)

\* A function lookup that answers a function without parameters that
\* yields the empty string for a name that is not defined.
get_function_or_stub(env, name) ==
    IF name \notin DOMAIN env.functions
    THEN FunctionDef(name, <<>>, StringLiteral(""))
    ELSE env.functions[name]

get_function(env, name) ==
    IF name \notin DOMAIN env.functions
    THEN RuntimeError("Undefined function: " \o name)
    ELSE env.functions[name]

(***************************************************************************)
(* Env on objects.  A dict is an object in memory (h, a sequence of dicts, *)
(* a reference being an index) and the bindings of an Env object are a     *)
(* reference; the methods return the memory they leave and the Env made.   *)
(***************************************************************************)
\* The environment an Env object stands for in memory h.
Deref(h, self) == Env(h[self.bindings], self.functions)

\* An extend that assigns into the dict of the Env it is called on.
Env_extend_in_place(h, self, name, value) ==
    LET new_bindings == self.bindings
        assigned == [h EXCEPT ![new_bindings] = DictSet(@, name, value)]
    IN [heap |-> assigned, env |-> Env(new_bindings, self.functions)]

Env_extend(h, self, name, value) ==
    LET copied == Append(h, h[self.bindings])
        new_bindings == Len(copied)
        assigned == [copied EXCEPT ![new_bindings] = DictSet(@, name, value)]
    IN [heap |-> assigned, env |-> Env(new_bindings, self.functions)]

\* for name, value in zip(names, values), keeping the first value of a name
RECURSIVE ZipAssignOnce(_, _, _, _)
ZipAssignOnce(d, names, values, i) ==
    IF i > Len(names) \/ i > Len(values) THEN d
    ELSE LET rest == ZipAssignOnce(d, names, values, i + 1)
         IN DictSet(rest, names[i], values[i])

\* An extend_many in which the first pair of a repeated name wins.
Env_extend_many_first_wins(h, self, names, values) ==
    LET copied == Append(h, h[self.bindings])
        new_bindings == Len(copied)
        assigned == [copied EXCEPT ![new_bindings] = ZipAssignOnce(@, names, values, 1)]
    IN [heap |-> assigned, env |-> Env(new_bindings, self.functions)]

Env_extend_many(h, self, names, values) ==
    LET copied == Append(h, h[self.bindings])
        new_bindings == Len(copied)
        assigned == [copied EXCEPT ![new_bindings] = ZipAssign(@, names, values, 1)]
    IN [heap |-> assigned, env |-> Env(new_bindings, self.functions)]

(***************************************************************************)
(* System calls, evaluation contexts and machine states.                   *)
(***************************************************************************)
ReadCall(var) == [tag |-> "ReadCall", var |-> var]

WriteCall(text) == [tag |-> "WriteCall", text |-> text]

TellCall(text) == [tag |-> "TellCall", text |-> text]

AskCall(var, question) == [tag |-> "AskCall", var |-> var, question |-> question]

IfContext(then_expr, else_expr) ==
    [tag |-> "IfContext", then_expr |-> then_expr, else_expr |-> else_expr]

LetContext(var_name, remaining_bindings, body) ==
    [tag |-> "LetContext", var_name |-> var_name,
     remaining_bindings |-> remaining_bindings, body |-> body]

WriteContext == [tag |-> "WriteContext"]

TellContext == [tag |-> "TellContext"]

AskContext == [tag |-> "AskContext"]

FunctionCallContext(func_name, evaluated_args, remaining_args) ==
    [tag |-> "FunctionCallContext", func_name |-> func_name,
     evaluated_args |-> evaluated_args, remaining_args |-> remaining_args]

Computing(env, expr, contexts) ==
    [tag |-> "Computing", env |-> env, expr |-> expr, contexts |-> contexts]

Interop(syscall, continuation) ==
    [tag |-> "Interop", syscall |-> syscall, continuation |-> continuation]

Done(value) == [tag |-> "Done", value |-> value]

IsState(s) == s.tag \in {"Computing", "Interop", "Done"}

(***************************************************************************)
(* The evaluator.                                                          *)
(***************************************************************************)
\* A conversion that tests the literal's value instead of its presence.
expr_to_value_if_value(expr) ==
    IF expr.tag = "IntLiteral" /\ expr.value # 0 THEN IntV(expr.value)
    ELSE IF expr.tag = "StringLiteral" /\ expr.value # "" THEN StrV(expr.value)
    ELSE None

expr_to_value(expr) ==
    IF expr.tag = "IntLiteral" THEN IntV(expr.value)
    ELSE IF expr.tag = "StringLiteral" THEN StrV(expr.value)
    ELSE None

is_truthy(value) ==
    IF value.tag = "int" THEN value.value # 0
    ELSE IF value.tag = "str" THEN value.value # ""
    ELSE FALSE

\* An if that, on a false condition, runs the then branch before the else
\* branch.
apply_if_runs_both(env, ctx, value, contexts) ==
    IF is_truthy(value)
    THEN Computing(env, ctx.then_expr, contexts)
    ELSE Computing(env, ctx.then_expr,
                   <<LetContext("__then__", <<>>, ctx.else_expr)>> \o contexts)

\* apply_context, IfContext: condition evaluated, choose branch
\* An if that comes back to itself after the then branch.
apply_if_repeats(env, ctx, value, contexts) ==
    IF is_truthy(value)
    THEN Computing(env, ctx.then_expr, <<ctx>> \o contexts)
    ELSE Computing(env, ctx.else_expr, contexts)

apply_if(env, ctx, value, contexts) ==
    IF is_truthy(value)
    THEN Computing(env, ctx.then_expr, contexts)
    ELSE Computing(env, ctx.else_expr, contexts)

\* A let that evaluates the next binding in the environment it had before
\* the value arrived.
apply_let_in_outer_env(env, ctx, value, contexts) ==
    LET new_env == extend(env, ctx.var_name, value)
    IN IF len(ctx.remaining_bindings) = 0
       THEN Computing(new_env, ctx.body, contexts)
       ELSE LET next_binding == ctx.remaining_bindings[1]
                remaining_bindings_new == Rest(ctx.remaining_bindings)
                let_ctx == LetContext(next_binding.name, remaining_bindings_new, ctx.body)
            IN Computing(env, next_binding.value, <<let_ctx>> \o contexts)

\* apply_context, LetContext: binding value evaluated, extend environment
apply_let(env, ctx, value, contexts) ==
    LET new_env == extend(env, ctx.var_name, value)
    IN IF len(ctx.remaining_bindings) = 0
       THEN Computing(new_env, ctx.body, contexts)
       ELSE LET next_binding == ctx.remaining_bindings[1]
                remaining_bindings_new == Rest(ctx.remaining_bindings)
                let_ctx == LetContext(next_binding.name, remaining_bindings_new, ctx.body)
            IN Computing(new_env, next_binding.value, <<let_ctx>> \o contexts)

\* apply_context, WriteContext: argument evaluated, perform system call
\* A write whose continuation is already Done.
apply_write_continues_done(env, ctx, value, contexts) ==
    LET continuation == Done(StrV(""))
    IN Interop(WriteCall(str(value)), continuation)

apply_write(env, ctx, value, contexts) ==
    LET continuation == Computing(env, StringLiteral(""), contexts)
    IN Interop(WriteCall(str(value)), continuation)

\* apply_tell with the request built as in the write branch above it.
apply_tell_as_write(env, ctx, value, contexts) ==
    LET continuation == Computing(env, StringLiteral(""), contexts)
    IN Interop(WriteCall(str(value)), continuation)

\* apply_context, TellContext: argument evaluated, perform system call
apply_tell(env, ctx, value, contexts) ==
    LET continuation == Computing(env, StringLiteral(""), contexts)
    IN Interop(TellCall(str(value)), continuation)

\* apply_ask with the request naming the read temporary, not the one the
\* continuation looks up.
apply_ask_wrong_var(env, ctx, value, contexts) ==
    LET temp_var == "__ask_result__"
        continuation == Computing(extend(env, temp_var, StrV("")), Variable(temp_var), contexts)
    IN Interop(AskCall("__read_result__", str(value)), continuation)

\* apply_context, AskContext: question evaluated, perform system call
apply_ask(env, ctx, value, contexts) ==
    LET temp_var == "__ask_result__"
        continuation == Computing(extend(env, temp_var, StrV("")), Variable(temp_var), contexts)
    IN Interop(AskCall(temp_var, str(value)), continuation)

\* call_env with the argument values taken in the reverse order.
call_env_reversed(env, func_def, evaluated) ==
    extend_many(env, func_def.params,
                [i \in DOMAIN evaluated |-> evaluated[Len(evaluated) + 1 - i]])

\* The environment a called function's body starts in (arguments given).
call_env(env, func_def, evaluated) == extend_many(env, func_def.params, evaluated)

\* The environment a called function's body starts in (no arguments).
\* A call without arguments that starts the body without bindings.
nullary_call_env_fresh(env) == Env(EmptyDict, env.functions)

nullary_call_env(env) == Env(env.bindings, env.functions)

\* The environment the next argument of a pending call is evaluated in.
next_arg_env(env) == env

\* A call that only rejects too few arguments.
apply_call_too_few(env, ctx, value, contexts) ==
    LET evaluated == ctx.evaluated_args \o <<value>>
    IN IF len(ctx.remaining_args) = 0
       THEN LET func_def == get_function(env, ctx.func_name)
            IN IF IsError(func_def) THEN func_def
               ELSE IF len(evaluated) < len(func_def.params)
               THEN RuntimeError("Function " \o ctx.func_name \o " expects "
                                 \o Decimal(len(func_def.params))
                                 \o " arguments, got " \o Decimal(len(evaluated)))
               ELSE LET new_env == call_env(env, func_def, evaluated)
                    IN Computing(new_env, func_def.body, contexts)
       ELSE LET next_arg == ctx.remaining_args[1]
                remaining_args_new == Rest(ctx.remaining_args)
                call_ctx == FunctionCallContext(ctx.func_name, evaluated, remaining_args_new)
            IN Computing(next_arg_env(env), next_arg, <<call_ctx>> \o contexts)

\* apply_context, FunctionCallContext: one argument evaluated
apply_call(env, ctx, value, contexts) ==
    LET evaluated == ctx.evaluated_args \o <<value>>
    IN IF len(ctx.remaining_args) = 0
       THEN LET func_def == get_function(env, ctx.func_name)
            IN IF IsError(func_def) THEN func_def
               ELSE IF len(evaluated) # len(func_def.params)
               THEN RuntimeError("Function " \o ctx.func_name \o " expects "
                                 \o Decimal(len(func_def.params))
                                 \o " arguments, got " \o Decimal(len(evaluated)))
               ELSE LET new_env == call_env(env, func_def, evaluated)
                    IN Computing(new_env, func_def.body, contexts)
       ELSE LET next_arg == ctx.remaining_args[1]
                remaining_args_new == Rest(ctx.remaining_args)
                call_ctx == FunctionCallContext(ctx.func_name, evaluated, remaining_args_new)
            IN Computing(next_arg_env(env), next_arg, <<call_ctx>> \o contexts)

apply_context(env, ctx, value, contexts) ==
    CASE ctx.tag = "IfContext" -> apply_if(env, ctx, value, contexts)
      [] ctx.tag = "LetContext" -> apply_let(env, ctx, value, contexts)
      [] ctx.tag = "WriteContext" -> apply_write(env, ctx, value, contexts)
      [] ctx.tag = "TellContext" -> apply_tell(env, ctx, value, contexts)
      [] ctx.tag = "AskContext" -> apply_ask(env, ctx, value, contexts)
      [] ctx.tag = "FunctionCallContext" -> apply_call(env, ctx, value, contexts)
      [] OTHER -> RuntimeError("Unknown context type: " \o ctx.tag)

\* A delivery that resumes the frame pushed first.
deliver_to_oldest(env, value, contexts) ==
    IF len(contexts) = 0
    THEN Done(value)
    ELSE LET ctx == contexts[Len(contexts)]
             remaining_contexts == SubSeq(contexts, 1, Len(contexts) - 1)
         IN apply_context(env, ctx, value, remaining_contexts)

\* step, a known value: Done without contexts, else pop a context and apply
deliver(env, value, contexts) ==
    IF len(contexts) = 0
    THEN Done(value)
    ELSE LET ctx == contexts[1]
             remaining_contexts == Rest(contexts)
         IN apply_context(env, ctx, value, remaining_contexts)

\* A variable step that catches the lookup error and ends the run with its
\* message.
step_variable_catches(env, expr, contexts) ==
    LET val == lookup(env, expr.name)
    IN IF IsError(val) THEN Done(StrV(val.msg)) ELSE deliver(env, val, contexts)

\* step, Variable reference
step_variable(env, expr, contexts) ==
    LET val == lookup(env, expr.name)
    IN IF IsError(val) THEN val ELSE deliver(env, val, contexts)

\* step, If expression: evaluate condition
step_if(env, expr, contexts) ==
    LET if_ctx == IfContext(expr.then_expr, expr.else_expr)
    IN Computing(env, expr.condition, <<if_ctx>> \o contexts)

\* A let that forgets the bindings after the first.
step_let_first_binding_only(env, expr, contexts) ==
    IF len(expr.bindings) = 0
    THEN Computing(env, expr.body, contexts)
    ELSE LET first_binding == expr.bindings[1]
             let_ctx == LetContext(first_binding.name, <<>>, expr.body)
         IN Computing(env, first_binding.value, <<let_ctx>> \o contexts)

\* step, Let expression: evaluate first binding
step_let(env, expr, contexts) ==
    IF len(expr.bindings) = 0
    THEN Computing(env, expr.body, contexts)
    ELSE LET first_binding == expr.bindings[1]
             remaining_bindings == Rest(expr.bindings)
             let_ctx == LetContext(first_binding.name, remaining_bindings, expr.body)
         IN Computing(env, first_binding.value, <<let_ctx>> \o contexts)

\* step, Write primitive: evaluate argument
step_write(env, expr, contexts) ==
    Computing(env, expr.expr, <<WriteContext>> \o contexts)

\* step_read with the continuation of the write and tell forms.
step_read_empty(env, expr, contexts) ==
    LET temp_var == "__read_result__"
        continuation == Computing(env, StringLiteral(""), contexts)
    IN Interop(ReadCall(temp_var), continuation)

\* step, Read primitive: perform system call immediately
step_read(env, expr, contexts) ==
    LET temp_var == "__read_result__"
        continuation == Computing(extend(env, temp_var, StrV("")), Variable(temp_var), contexts)
    IN Interop(ReadCall(temp_var), continuation)

\* step, Tell primitive: evaluate argument
step_tell(env, expr, contexts) ==
    Computing(env, expr.expr, <<TellContext>> \o contexts)

\* step, Ask primitive: evaluate argument
step_ask(env, expr, contexts) ==
    Computing(env, expr.expr, <<AskContext>> \o contexts)

\* step, Function call: evaluate arguments left to right
\* A call without arguments that pushes a frame for itself.
step_call_pushes_frame(env, expr, contexts) ==
    IF len(expr.args) = 0
    THEN LET func_def == get_function(env, expr.func_name)
         IN IF IsError(func_def) THEN func_def
            ELSE IF len(func_def.params) # 0
            THEN RuntimeError("Function " \o expr.func_name \o " expects "
                              \o Decimal(len(func_def.params)) \o " arguments, got 0")
            ELSE LET new_env == nullary_call_env(env)
                     call_ctx == FunctionCallContext(expr.func_name, <<>>, <<>>)
                 IN Computing(new_env, func_def.body, <<call_ctx>> \o contexts)
    ELSE LET first_arg == expr.args[1]
             remaining_args == Rest(expr.args)
             call_ctx == FunctionCallContext(expr.func_name, <<>>, remaining_args)
         IN Computing(env, first_arg, <<call_ctx>> \o contexts)

\* A call that starts with its last argument.
step_call_last_arg_first(env, expr, contexts) ==
    IF len(expr.args) = 0
    THEN LET func_def == get_function(env, expr.func_name)
         IN IF IsError(func_def) THEN func_def
            ELSE IF len(func_def.params) # 0
            THEN RuntimeError("Function " \o expr.func_name \o " expects "
                              \o Decimal(len(func_def.params)) \o " arguments, got 0")
            ELSE LET new_env == nullary_call_env(env)
                 IN Computing(new_env, func_def.body, contexts)
    ELSE LET first_arg == expr.args[Len(expr.args)]
             remaining_args == SubSeq(expr.args, 1, Len(expr.args) - 1)
             call_ctx == FunctionCallContext(expr.func_name, <<>>, remaining_args)
         IN Computing(env, first_arg, <<call_ctx>> \o contexts)

\* A call that looks its function up and checks the argument count before
\* it starts the first argument.
step_call_checks_first(env, expr, contexts) ==
    LET func_def == get_function(env, expr.func_name)
    IN IF IsError(func_def) THEN func_def
       ELSE IF len(func_def.params) # len(expr.args)
       THEN RuntimeError("Function " \o expr.func_name \o " expects "
                         \o Decimal(len(func_def.params)) \o " arguments, got "
                         \o Decimal(len(expr.args)))
       ELSE IF len(expr.args) = 0
       THEN Computing(nullary_call_env(env), func_def.body, contexts)
       ELSE Computing(env, expr.args[1],
                      <<FunctionCallContext(expr.func_name, <<>>, Rest(expr.args))>>
                      \o contexts)

step_call(env, expr, contexts) ==
    IF len(expr.args) = 0
    THEN LET func_def == get_function(env, expr.func_name)
         IN IF IsError(func_def) THEN func_def
            ELSE IF len(func_def.params) # 0
            THEN RuntimeError("Function " \o expr.func_name \o " expects "
                              \o Decimal(len(func_def.params)) \o " arguments, got 0")
            ELSE LET new_env == nullary_call_env(env)
                 IN Computing(new_env, func_def.body, contexts)
    ELSE LET first_arg == expr.args[1]
             remaining_args == Rest(expr.args)
             call_ctx == FunctionCallContext(expr.func_name, <<>>, remaining_args)
         IN Computing(env, first_arg, <<call_ctx>> \o contexts)

\* A step that has no case for tell.
step_computing_without_tell(env, expr, contexts) ==
    LET value == expr_to_value(expr)
    IN IF value # None THEN deliver(env, value, contexts)
       ELSE CASE expr.tag = "Variable" -> step_variable(env, expr, contexts)
              [] expr.tag = "IfExpr" -> step_if(env, expr, contexts)
              [] expr.tag = "LetExpr" -> step_let(env, expr, contexts)
              [] expr.tag = "WriteExpr" -> step_write(env, expr, contexts)
              [] expr.tag = "ReadExpr" -> step_read(env, expr, contexts)
              [] expr.tag = "AskExpr" -> step_ask(env, expr, contexts)
              [] expr.tag = "FunctionCall" -> step_call(env, expr, contexts)
              [] OTHER -> None

\* step, a Computing state
step_computing(env, expr, contexts) ==
    LET value == expr_to_value(expr)
    IN IF value # None THEN deliver(env, value, contexts)
       ELSE CASE expr.tag = "Variable" -> step_variable(env, expr, contexts)
              [] expr.tag = "IfExpr" -> step_if(env, expr, contexts)
              [] expr.tag = "LetExpr" -> step_let(env, expr, contexts)
              [] expr.tag = "WriteExpr" -> step_write(env, expr, contexts)
              [] expr.tag = "ReadExpr" -> step_read(env, expr, contexts)
              [] expr.tag = "TellExpr" -> step_tell(env, expr, contexts)
              [] expr.tag = "AskExpr" -> step_ask(env, expr, contexts)
              [] expr.tag = "FunctionCall" -> step_call(env, expr, contexts)
              [] OTHER -> None

\* step on a Done state
step_done(st) == None

\* step on an Interop state that goes on with the continuation.
step_interop_resumes(st) == st.continuation

\* step on an Interop state
step_interop(st) == None

step(st) ==
    CASE st.tag = "Done" -> step_done(st)
      [] st.tag = "Interop" -> step_interop(st)
      [] st.tag = "Computing" -> step_computing(st.env, st.expr, st.contexts)
      [] OTHER -> None

\* What a call of step_with_syscall produced: its result (a state, None or the
\* error it raised) and the system calls its handler was invoked with.
Outcome(result, calls) == [result |-> result, calls |-> calls]

NoHandler == [tag |-> "None"]

Handler(text) == [tag |-> "handler", returns |-> text]

\* resume_bind that drops the handler's result.
resume_bind_unbound(st, result) == st.continuation

\* step_with_syscall, Read/Ask: bind the result in the continuation's environment
resume_bind(st, result) ==
    IF st.continuation.tag = "Computing"
    THEN LET new_env == extend(st.continuation.env, st.syscall.var, StrV(result))
         IN Computing(new_env, st.continuation.expr, st.continuation.contexts)
    ELSE st.continuation

\* step_with_syscall, Write/Tell: continue with empty string result
resume_discard(st, result) == st.continuation

\* step_with_syscall that gives up without a handler before looking at the state.
step_not_interop_needs_handler(st, syscall_handler) ==
    IF syscall_handler = NoHandler THEN Outcome(None, <<>>)
    ELSE Outcome(step(st), <<>>)

\* step_with_syscall on a state that is not Interop
step_not_interop(st, syscall_handler) == Outcome(step(st), <<>>)

step_with_syscall(st, syscall_handler) ==
    IF st.tag = "Interop"
    THEN IF syscall_handler = NoHandler
         THEN Outcome(None, <<>>)
         ELSE LET result == syscall_handler.returns
                  calls == <<st.syscall>>
              IN IF st.syscall.tag = "ReadCall" THEN Outcome(resume_bind(st, result), calls)
                 ELSE IF st.syscall.tag = "AskCall" THEN Outcome(resume_bind(st, result), calls)
                 ELSE Outcome(resume_discard(st, result), calls)
    ELSE step_not_interop(st, syscall_handler)

\* func_map = {func.name: func for func in program.functions}
func_map_of(prog) ==
    LET fs == prog.functions
    IN [n \in {fs[i].name : i \in DOMAIN fs} |->
          fs[CHOOSE i \in DOMAIN fs : /\ fs[i].name = n
                                      /\ \A j \in DOMAIN fs : fs[j].name = n => j <= i]]

\* An initial state built without looking at the parameters of main.
create_initial_state_unchecked(prog) ==
    LET func_map == func_map_of(prog)
        main_func == get_main(prog)
    IN IF main_func = None THEN RuntimeError("Program must have a main function")
       ELSE Computing(Env(EmptyDict, func_map), main_func.body, <<>>)

create_initial_state(prog) ==
    LET func_map == func_map_of(prog)
        main_func == get_main(prog)
    IN IF main_func = None THEN RuntimeError("Program must have a main function")
       ELSE IF len(main_func.params) # 0
       THEN RuntimeError("Main function must take no parameters")
       ELSE Computing(Env(EmptyDict, func_map), main_func.body, <<>>)

(***************************************************************************)
(* The programs the caller may load.                                       *)
(***************************************************************************)
identity_func == FunctionDef("identity", <<"x">>, Variable("x"))

second_func == FunctionDef("second", <<"x", "y">>, Variable("y"))

first_func == FunctionDef("first", <<"x", "y">>, Variable("x"))

foo_func == FunctionDef("foo", <<>>, IntLiteral(42))

\* Functions whose body names a variable that is not one of their parameters.
peek_func == FunctionDef("peek", <<>>, Variable("x"))

peek_arg_func == FunctionDef("peek_arg", <<"y">>, Variable("x"))

\* A function declared with the same parameter name twice.
twice_func == FunctionDef("twice", <<"x", "x">>, Variable("x"))

\* A function that calls itself in tail position, and one that does not.
loop_func == FunctionDef("loop", <<>>, FunctionCall("loop", <<>>))

grow_func == FunctionDef("grow", <<>>, WriteExpr(FunctionCall("grow", <<>>)))

spin_func == FunctionDef("spin", <<"x">>, FunctionCall("spin", <<Variable("x")>>))

report_func == FunctionDef("report", <<"x", "y">>, WriteExpr(Variable("y")))

Library == <<identity_func, second_func, first_func, foo_func, peek_func,
             peek_arg_func, twice_func, loop_func, grow_func>>

main_of(body) == FunctionDef("main", <<>>, body)

\* The literal operands used to build main bodies.
Operands == <<IntLiteral(0), IntLiteral(7), IntLiteral(10), IntLiteral(-5),
              StringLiteral(""), StringLiteral("hello")>>

Let1(name, value, body) == LetExpr(<<LetBinding(name, value)>>, body)

Call0(f) == FunctionCall(f, <<>>)

Call1(f, a) == FunctionCall(f, <<a>>)

Call2(f, a, b) == FunctionCall(f, <<a, b>>)

Bodies ==
    \* literals and the effect forms over every operand
    Operands
    \o [i \in DOMAIN Operands |-> WriteExpr(Operands[i])]
    \o [i \in DOMAIN Operands |-> TellExpr(Operands[i])]
    \o [i \in DOMAIN Operands |-> AskExpr(Operands[i])]
    \o [i \in DOMAIN Operands |-> IfExpr(Operands[i], IntLiteral(42), IntLiteral(99))]
    \o [i \in DOMAIN Operands |-> Call1("identity", Operands[i])]
    \o [i \in DOMAIN Operands |-> Call2("second", IntLiteral(10), Operands[i])]
    \o [i \in DOMAIN Operands |-> Call2("twice", IntLiteral(10), Operands[i])]
    \o [i \in DOMAIN Operands |-> Let1("x", Operands[i], Call0("peek"))]
    \o [i \in DOMAIN Operands |-> Let1("x", Operands[i], Call1("peek_arg", IntLiteral(7)))]
    \o [i \in DOMAIN Operands |-> Call2("second", Let1("x", Operands[i], Variable("x")), Variable("x"))]
    \o <<
    ReadExpr,
    Variable("undefined"),
    \* let
    Let1("x", IntLiteral(10), Variable("x")),
    LetExpr(<<LetBinding("x", IntLiteral(10)), LetBinding("y", IntLiteral(20))>>, Variable("y")),
    LetExpr(<<LetBinding("x", IntLiteral(10)), LetBinding("y", Variable("x"))>>, Variable("y")),
    LetExpr(<<LetBinding("x", IntLiteral(10)), LetBinding("x", IntLiteral(20))>>, Variable("x")),
    Let1("x", IntLiteral(10), Let1("y", Variable("x"), Variable("y"))),
    LetExpr(<<>>, IntLiteral(7)),
    \* calls
    Call0("foo"),
    Call2("first", IntLiteral(10), IntLiteral(20)),
    Call1("identity", Call1("identity", StringLiteral("hello"))),
    Call0("peek"),
    Call1("peek_arg", IntLiteral(7)),
    Call0("undefined"),
    Call1("undefined", ReadExpr),
    Call0("identity"),
    Call1("foo", WriteExpr(IntLiteral(7))),
    Call2("undefined", TellExpr(IntLiteral(7)), ReadExpr),
    Call2("identity", WriteExpr(IntLiteral(10)), AskExpr(StringLiteral("hello"))),

    Call1("second", IntLiteral(10)),
    Call2("identity", IntLiteral(10), IntLiteral(20)),
    \* later arguments of a call after an earlier one created bindings
    Call2("second", ReadExpr, Variable("__read_result__")),
    Call2("second", AskExpr(StringLiteral("hello")), Variable("__ask_result__")),
    Call2("second", Call1("identity", IntLiteral(7)), Variable("x")),
    Let1("x", IntLiteral(10), Call2("second", Let1("x", IntLiteral(7), Variable("x")), Variable("x"))),
    Let1("x", IntLiteral(10), Call2("first", Variable("x"), Let1("x", IntLiteral(7), Variable("x")))),
    \* effects in sequence and under a condition
    Call2("second", WriteExpr(StringLiteral("hello")), ReadExpr),
    Call2("first", ReadExpr, ReadExpr),
    LetExpr(<<LetBinding("x", ReadExpr), LetBinding("y", AskExpr(Variable("x")))>>, WriteExpr(Variable("y"))),
    IfExpr(ReadExpr, WriteExpr(IntLiteral(10)), TellExpr(StringLiteral("hello"))),
    WriteExpr(WriteExpr(IntLiteral(7))),
    AskExpr(ReadExpr),
    TellExpr(AskExpr(IntLiteral(10))),
    Let1("x", ReadExpr, Call0("peek")),
    \* recursion
    Call0("loop"),
    Call0("grow"),
    \* a let whose later binding evaluates something that binds x itself
    LetExpr(<<LetBinding("x", IntLiteral(10)),
              LetBinding("y", Call1("identity", IntLiteral(7)))>>, Variable("x")),
    LetExpr(<<LetBinding("x", IntLiteral(10)),
              LetBinding("y", Let1("x", IntLiteral(7), Variable("x")))>>, Variable("x")),
    LetExpr(<<LetBinding("x", IntLiteral(10)), LetBinding("y", StringLiteral("hello")),
              LetBinding("z", Variable("x"))>>, Variable("z")),
    \* an undefined variable under pending contexts
    WriteExpr(Variable("undefined")),
    IfExpr(Variable("undefined"), IntLiteral(42), IntLiteral(99)),
    Call2("second", IntLiteral(10), Variable("undefined")),
    Let1("x", IntLiteral(10), Variable("y")),
    \* more unknown callees and wrong argument counts
    Call2("undefined", IntLiteral(10), IntLiteral(20)),
    WriteExpr(Call0("undefined")),
    Call0("second"),
    Call2("foo", IntLiteral(10), IntLiteral(20)),
    Call1("identity", Call0("identity")),
    \* effects in the bindings and in the body of a let
    LetExpr(<<LetBinding("x", WriteExpr(IntLiteral(10))),
              LetBinding("y", TellExpr(IntLiteral(7)))>>, AskExpr(StringLiteral("hello"))),
    Call2("first", TellExpr(IntLiteral(7)), WriteExpr(IntLiteral(10))),
    \* an if under a pending context
    WriteExpr(IfExpr(ReadExpr, IntLiteral(42), StringLiteral("")))
    >>
    \* effects in both branches of an if, over every operand as condition
    \o [i \in DOMAIN Operands |->
          IfExpr(Operands[i], WriteExpr(IntLiteral(42)), TellExpr(IntLiteral(99)))]
    \o <<IfExpr(AskExpr(ReadExpr), WriteExpr(IntLiteral(10)), TellExpr(StringLiteral("hello")))>>
    \* a condition that is a variable, over every operand
    \o [i \in DOMAIN Operands |->
          Let1("x", Operands[i], IfExpr(Variable("x"), IntLiteral(42), IntLiteral(99)))]

Programs ==
    [i \in DOMAIN Bodies |-> Program(Library \o <<main_of(Bodies[i])>>)]
    \o <<
    \* programs create_initial_state rejects
    Program(<<>>),
    Program(<<foo_func>>),
    Program(<<FunctionDef("main", <<"x">>, Variable("x"))>>),
    \* a name defined more than once
    Program(<<main_of(IntLiteral(7)), main_of(IntLiteral(10))>>),
    Program(<<FunctionDef("main", <<"x">>, Variable("x")), main_of(IntLiteral(10))>>),
    Program(<<main_of(Call0("foo")), foo_func, FunctionDef("foo", <<>>, IntLiteral(7))>>),
    Program(<<main_of(Call0("main")), main_of(IntLiteral(10))>>),
    Program(<<main_of(IntLiteral(10)), FunctionDef("main", <<"x">>, Variable("x"))>>),
    \* a function that calls itself in tail position, with an argument
    Program(<<spin_func, main_of(Call1("spin", IntLiteral(7)))>>),
    \* effects in the arguments of a call and in the body of the callee
    Program(<<report_func, main_of(Call2("report", TellExpr(StringLiteral("hello")), ReadExpr))>>)
    >>

\* The texts a system call handler may return.
HandlerResults == {"", "hello", "7"}

Handlers == {NoHandler} \cup {Handler(t) : t \in HandlerResults}

(***************************************************************************)
(* The caller: it loads a program, then steps the state it holds with step *)
(* or step_with_syscall, keeping its state when a call returns None or     *)
(* raises.  prev, ret, op, handler and handler_calls describe the last     *)
(* call; effects lists every system call handled with the text returned.   *)
(***************************************************************************)
Effect(syscall, result) == [syscall |-> syscall, result |-> result]

Init ==
    /\ \E i \in DOMAIN Programs : program = Programs[i]
    /\ state = None
    /\ prev = None
    /\ ret = None
    /\ op = "init"
    /\ handler = NoHandler
    /\ handler_calls = <<>>
    /\ effects = <<>>
    /\ steps = 0
    /\ heap = <<>>
    /\ envs = <<>>
    /\ call = None
    /\ step_count = 0
    /\ run = None

CreateInitialState ==
    /\ op = "init"
    /\ LET r == create_initial_state(program)
       IN /\ ret' = r
          /\ state' = IF IsState(r) THEN r ELSE state
    /\ prev' = None
    /\ op' = "create_initial_state"
    /\ UNCHANGED <<program, handler, handler_calls, effects, steps>>
    /\ UNCHANGED env_vars
    /\ UNCHANGED session_vars

Step ==
    /\ IsState(state)
    /\ steps < MaxSteps
    /\ LET r == step(state)
       IN /\ ret' = r
          /\ state' = IF IsState(r) THEN r ELSE state
          /\ steps' = IF IsState(r) THEN steps + 1 ELSE steps
    /\ prev' = state
    /\ op' = "step"
    /\ handler' = NoHandler
    /\ handler_calls' = <<>>
    /\ UNCHANGED <<program, effects>>
    /\ UNCHANGED env_vars
    /\ UNCHANGED session_vars

StepWithSyscall(h) ==
    /\ IsState(state)
    /\ steps < MaxSteps
    /\ LET o == step_with_syscall(state, h)
       IN /\ ret' = o.result
          /\ state' = IF IsState(o.result) THEN o.result ELSE state
          /\ steps' = IF IsState(o.result) THEN steps + 1 ELSE steps
          /\ handler_calls' = o.calls
          /\ effects' = effects \o [i \in DOMAIN o.calls |-> Effect(o.calls[i], h.returns)]
    /\ prev' = state
    /\ op' = "step_with_syscall"
    /\ handler' = h
    /\ UNCHANGED program
    /\ UNCHANGED env_vars
    /\ UNCHANGED session_vars

Next ==
    \/ CreateInitialState
    \/ Step
    \/ \E h \in Handlers : StepWithSyscall(h)

Spec == Init /\ [][Next]_vars

(***************************************************************************)
(* Env.extend and Env.extend_many applied to Env objects: from one Env     *)
(* over some bindings, each call picks an Env made so far and makes a new  *)
(* one from it.  No program runs meanwhile.                                *)
(***************************************************************************)
\* The names and values the methods are called with.
Names == {"x", "y"}

Values == {IntV(0), IntV(7), StrV("")}

NameLists == {<<>>, <<"x">>, <<"x", "y">>, <<"x", "x">>, <<"y", "x", "y">>}

ValueLists == {<<>>, <<IntV(7)>>, <<IntV(7), IntV(0)>>, <<StrV(""), IntV(7), IntV(0)>>}

\* The bindings of the first Env.
InitialBindings ==
    <<EmptyDict,
      DictSet(EmptyDict, "x", IntV(10)),
      DictSet(DictSet(EmptyDict, "x", IntV(10)), "y", StrV("hello"))>>

EnvInit ==
    /\ \E i \in DOMAIN InitialBindings : heap = <<InitialBindings[i]>>
    /\ envs = <<Env(1, func_map_of(Program(Library)))>>
    /\ call = None
    /\ program = Program(<<>>)
    /\ state = None
    /\ prev = None
    /\ ret = None
    /\ op = "init"
    /\ handler = NoHandler
    /\ handler_calls = <<>>
    /\ effects = <<>>
    /\ steps = 0
    /\ step_count = 0
    /\ run = None

EnvExtend(self, name, value) ==
    /\ Len(envs) < MaxEnvs
    /\ LET r == Env_extend(heap, envs[self], name, value)
       IN /\ heap' = r.heap
          /\ envs' = Append(envs, r.env)
          /\ call' = [tag |-> "extend", self |-> envs[self], name |-> name,
                      value |-> value, result |-> r.env, before |-> heap]
    /\ UNCHANGED run_vars
    /\ UNCHANGED session_vars

EnvExtendMany(self, names, values) ==
    /\ Len(envs) < MaxEnvs
    /\ LET r == Env_extend_many(heap, envs[self], names, values)
       IN /\ heap' = r.heap
          /\ envs' = Append(envs, r.env)
          /\ call' = [tag |-> "extend_many", self |-> envs[self], names |-> names,
                      values |-> values, result |-> r.env, before |-> heap]
    /\ UNCHANGED run_vars
    /\ UNCHANGED session_vars

EnvNext ==
    \/ \E self \in DOMAIN envs, name \in Names, value \in Values :
          EnvExtend(self, name, value)
    \/ \E self \in DOMAIN envs, names \in NameLists, values \in ValueLists :
          EnvExtendMany(self, names, values)

EnvSpec == EnvInit /\ [][EnvNext]_vars

\* The body of the first function named main (None without one).
main_body_of(prog) ==
    LET m == get_main(prog) IN IF m = None THEN None ELSE m.body

(***************************************************************************)
(* Vocabulary of the properties: what the last call was and what it did.   *)
(***************************************************************************)
\* The last call was step or step_with_syscall.
Called == op \in {"step", "step_with_syscall"}

\* The last call went through plain step on a Computing state.
SteppedComputing == Called /\ prev.tag = "Computing"

\* The last call resumed an Interop state with a handler.
Resumed ==
    /\ op = "step_with_syscall"
    /\ prev.tag = "Interop"
    /\ handler # NoHandler

\* st is a Computing state whose expression has a value right away.
HasValue(st) ==
    /\ st.tag = "Computing"
    /\ \/ st.expr.tag \in {"IntLiteral", "StringLiteral"}
       \/ st.expr.tag = "Variable" /\ st.expr.name \in DOMAIN st.env.bindings

\* That value.
ValueOf(st) ==
    CASE st.expr.tag = "IntLiteral" -> [tag |-> "int", value |-> st.expr.value]
      [] st.expr.tag = "StringLiteral" -> [tag |-> "str", value |-> st.expr.value]
      [] st.expr.tag = "Variable" -> st.env.bindings[st.expr.name]

\* The last call delivered a value to a context of the given kind.
DeliveredTo(kind) ==
    /\ SteppedComputing
    /\ HasValue(prev)
    /\ prev.contexts # <<>>
    /\ prev.contexts[1].tag = kind

\* The string form of the values the programs compute, written out.
TextOf(v) ==
    IF v.tag = "str" THEN v.value
    ELSE CASE v.value = 0 -> "0"
           [] v.value = 7 -> "7"
           [] v.value = 10 -> "10"
           [] v.value = 20 -> "20"
           [] v.value = 42 -> "42"
           [] v.value = 99 -> "99"
           [] v.value = -5 -> "-5"

\* The body of the entry point of the loaded program.
MainBody == main_body_of(program)

(***************************************************************************)
(* C2.  Flat call scoping.                                                 *)
(***************************************************************************)
\* The last call performed a function call: the callee's body starts in ret.
EnteredNullary ==
    /\ SteppedComputing
    /\ prev.expr.tag = "FunctionCall"
    /\ prev.expr.args = <<>>
    /\ ret.tag = "Computing"

EnteredWithArgs ==
    /\ DeliveredTo("FunctionCallContext")
    /\ prev.contexts[1].remaining_args = <<>>
    /\ ret.tag = "Computing"

\* The function that was called, and the argument values it was called with.
Callee ==
    IF EnteredNullary THEN prev.env.functions[prev.expr.func_name]
    ELSE prev.env.functions[prev.contexts[1].func_name]

ArgValues ==
    IF EnteredNullary THEN <<>>
    ELSE prev.contexts[1].evaluated_args \o <<ValueOf(prev)>>

ParamNames(f) == {f.params[i] : i \in DOMAIN f.params}

\* C2: whenever a call is performed, with or without arguments, the
\* environment the callee's body starts in binds exactly the callee's
\* parameters, to the argument values, and no binding of the call site.
C2_FlatCallScoping ==
    (EnteredNullary \/ EnteredWithArgs) =>
        /\ DOMAIN ret.env.bindings = ParamNames(Callee)
        /\ \A i \in DOMAIN Callee.params :
              (\A j \in DOMAIN Callee.params : j > i => Callee.params[j] # Callee.params[i])
                  => ret.env.bindings[Callee.params[i]] = ArgValues[i]

(***************************************************************************)
(* C3.  Termination discipline.                                            *)
(***************************************************************************)
\* C3: plain step on a Done state or on an Interop state returns None and
\* leaves the caller where it was; it returns a successor only for a
\* Computing state.
C3_TerminationDiscipline ==
    op = "step" =>
        /\ prev.tag \in {"Done", "Interop"} => (ret = None /\ state = prev)
        /\ IsState(ret) => prev.tag = "Computing"

C3_Witness ==
    /\ op = "step"
    /\ prev.tag = "Interop"
    /\ prev.syscall.tag = "AskCall"
    /\ ret = None

(***************************************************************************)
(* C4.  step_with_syscall on states that are not Interop, or unhandled.    *)
(***************************************************************************)
\* C4: on a state that is not Interop step_with_syscall returns what step
\* returns (successor, error or None), with or without a handler, and never
\* invokes the handler; on an Interop state without a handler it returns None.
C4_AgreesWithStep ==
    op = "step_with_syscall" =>
        /\ prev.tag # "Interop" => (ret = step(prev) /\ handler_calls = <<>>)
        /\ (prev.tag = "Interop" /\ handler = NoHandler) =>
              (ret = None /\ handler_calls = <<>> /\ state = prev)

C4_Witness ==
    /\ op = "step_with_syscall"
    /\ prev.tag = "Computing"
    /\ handler = Handler("hello")
    /\ IsError(ret)
    /\ handler_calls = <<>>

(***************************************************************************)
(* C5.  Resume contract.                                                   *)
(***************************************************************************)
\* C5: resuming Interop(request, Computing(env, expr, contexts)) with a
\* handler invokes the handler once, on that request; for a read or ask
\* request the successor is Computing with env extended by the target
\* variable bound to the handler's result, expr and contexts unchanged; for
\* a write or tell request the successor is the stored continuation.
C5_ResumeContract ==
    (Resumed /\ prev.continuation.tag = "Computing") =>
        LET k == prev.continuation IN
        /\ handler_calls = <<prev.syscall>>
        /\ IF prev.syscall.tag \in {"ReadCall", "AskCall"}
           THEN /\ ret.tag = "Computing"
                /\ ret.env.functions = k.env.functions
                /\ DOMAIN ret.env.bindings = DOMAIN k.env.bindings \cup {prev.syscall.var}
                /\ ret.env.bindings[prev.syscall.var] = [tag |-> "str", value |-> handler.returns]
                /\ \A n \in DOMAIN k.env.bindings :
                      n # prev.syscall.var => ret.env.bindings[n] = k.env.bindings[n]
                /\ ret.expr = k.expr
                /\ ret.contexts = k.contexts
           ELSE ret = k

C5_Witness ==
    /\ Resumed
    /\ prev.syscall.tag = "AskCall"
    /\ prev.continuation.contexts # <<>>
    /\ handler = Handler("hello")
    /\ ret.tag = "Computing"
    /\ ret.env.bindings["__ask_result__"].value = "hello"

(***************************************************************************)
(* C6.  write and tell.                                                    *)
(***************************************************************************)
\* C6: when the argument of write (tell) has evaluated to v the machine goes
\* to Interop with a WriteCall (TellCall) whose text is the string form of v,
\* and whatever text the request is resumed with, the machine then holds the
\* empty string as the value of the form, for the contexts that were pending
\* around it; a program whose main body is write or tell of a literal ends
\* in Done("").
C6_WriteTell ==
    /\ DeliveredTo("WriteContext") =>
          /\ ret.tag = "Interop"
          /\ ret.syscall = [tag |-> "WriteCall", text |-> TextOf(ValueOf(prev))]
          /\ ret.continuation.tag = "Computing"
          /\ ret.continuation.contexts = Rest(prev.contexts)
    /\ DeliveredTo("TellContext") =>
          /\ ret.tag = "Interop"
          /\ ret.syscall = [tag |-> "TellCall", text |-> TextOf(ValueOf(prev))]
          /\ ret.continuation.tag = "Computing"
          /\ ret.continuation.contexts = Rest(prev.contexts)
    /\ (Resumed /\ prev.syscall.tag \in {"WriteCall", "TellCall"}) =>
          /\ HasValue(ret)
          /\ ValueOf(ret) = [tag |-> "str", value |-> ""]
          /\ ret.contexts = prev.continuation.contexts
    /\ (/\ MainBody.tag \in {"WriteExpr", "TellExpr"}
        /\ MainBody.expr.tag \in {"IntLiteral", "StringLiteral"}
        /\ state.tag = "Done") =>
          state.value = [tag |-> "str", value |-> ""]

C6_Witness ==
    /\ state.tag = "Done"
    /\ MainBody.tag = "TellExpr"
    /\ Len(effects) = 1
    /\ effects[1].syscall = [tag |-> "TellCall", text |-> "-5"]
    /\ effects[1].result = "hello"
    /\ state.value.value = ""

(***************************************************************************)
(* C7.  Read round trip.                                                   *)
(***************************************************************************)
\* C7: a Computing state whose expression is read() becomes in that one step
\* Interop(ReadCall("__read_result__"), continuation), nothing evaluated
\* first; resumed with a text t the machine holds t as the value of the read
\* form, for the contexts that were pending around it; a program whose main
\* body is read() ends in Done(t).
C7_ReadRoundTrip ==
    /\ (SteppedComputing /\ prev.expr.tag = "ReadExpr") =>
          /\ ret.tag = "Interop"
          /\ ret.syscall = [tag |-> "ReadCall", var |-> "__read_result__"]
          /\ ret.continuation.tag = "Computing"
          /\ ret.continuation.contexts = prev.contexts
    /\ (Resumed /\ prev.syscall.tag = "ReadCall") =>
          /\ HasValue(ret)
          /\ ValueOf(ret) = [tag |-> "str", value |-> handler.returns]
          /\ ret.contexts = prev.continuation.contexts
    /\ (MainBody.tag = "ReadExpr" /\ state.tag = "Done") =>
          /\ Len(effects) = 1
          /\ state.value = [tag |-> "str", value |-> effects[1].result]

C7_Witness ==
    /\ MainBody.tag = "ReadExpr"
    /\ state.tag = "Done"
    /\ effects = <<[syscall |-> [tag |-> "ReadCall", var |-> "__read_result__"], result |-> ""]>>
    /\ state.value.value = ""

(***************************************************************************)
(* C8.  Ask round trip.                                                    *)
(***************************************************************************)
\* C8: when the argument of ask has evaluated to v the machine goes to
\* Interop(AskCall("__ask_result__", string form of v), continuation);
\* resumed with a text t the machine holds t as the value of the ask form,
\* for the contexts that were pending around it; a program whose main body
\* is ask of a literal ends in Done(t).
C8_AskRoundTrip ==
    /\ DeliveredTo("AskContext") =>
          /\ ret.tag = "Interop"
          /\ ret.syscall = [tag |-> "AskCall", var |-> "__ask_result__",
                            question |-> TextOf(ValueOf(prev))]
          /\ ret.continuation.tag = "Computing"
          /\ ret.continuation.contexts = Rest(prev.contexts)
    /\ (Resumed /\ prev.syscall.tag = "AskCall") =>
          /\ HasValue(ret)
          /\ ValueOf(ret) = [tag |-> "str", value |-> handler.returns]
          /\ ret.contexts = prev.continuation.contexts
    /\ (/\ MainBody.tag = "AskExpr"
        /\ MainBody.expr.tag \in {"IntLiteral", "StringLiteral"}
        /\ state.tag = "Done") =>
          /\ Len(effects) = 1
          /\ state.value = [tag |-> "str", value |-> effects[1].result]

C8_Witness ==
    /\ MainBody.tag = "AskExpr"
    /\ state.tag = "Done"
    /\ Len(effects) = 1
    /\ effects[1].syscall.tag = "AskCall"
    /\ effects[1].syscall.question = "10"
    /\ effects[1].result = "hello"
    /\ state.value.value = "hello"

(***************************************************************************)
(* C9.  The environment of a call's later arguments.                       *)
(***************************************************************************)
\* The last call started the evaluation of a later argument of the call that
\* is the main body: the only pending context is that call's, and the
\* expression that starts is the argument after the ones evaluated so far.
\* The main body is reached in the initial environment, which binds nothing.
StartedLaterArgOfMainCall ==
    /\ MainBody.tag = "FunctionCall"
    /\ DeliveredTo("FunctionCallContext")
    /\ Len(prev.contexts) = 1
    /\ prev.contexts[1].func_name = MainBody.func_name
    /\ prev.contexts[1].remaining_args # <<>>
    /\ Len(prev.contexts[1].evaluated_args) + 1 + Len(prev.contexts[1].remaining_args)
          = Len(MainBody.args)
    /\ ret.tag = "Computing"
    /\ ret.expr = MainBody.args[Len(prev.contexts[1].evaluated_args) + 2]

\* C9: a later argument of a call is evaluated in the environment in which
\* the call expression was reached; for the call that is the main body that
\* environment has no bindings, so none made by an earlier argument.
C9_ArgsInCallerEnv ==
    StartedLaterArgOfMainCall => DOMAIN ret.env.bindings = {}

(***************************************************************************)
(* C10.  Calls bind parameters to arguments positionally.                  *)
(***************************************************************************)
\* C10 as claimed: a call to a function with as many parameters as arguments
\* starts the body with parameter i bound to the value of argument i, for
\* every i, and with the contexts that were pending around the call.
C10_BindsEveryParameter ==
    /\ EnteredWithArgs =>
          /\ ret.expr = Callee.body
          /\ ret.contexts = Rest(prev.contexts)
          /\ Len(ArgValues) = Len(Callee.params)
          /\ \A i \in DOMAIN Callee.params :
                ret.env.bindings[Callee.params[i]] = ArgValues[i]
    /\ EnteredNullary =>
          /\ ret.expr = Callee.body
          /\ ret.contexts = prev.contexts
          /\ Callee.params = <<>>

\* Parameter i of f is the last parameter of that name.
LastOfItsName(f, i) ==
    \A j \in DOMAIN f.params : j > i => f.params[j] # f.params[i]

\* The loaded program is the library followed by its main.
UsesLibrary == program.functions = Library \o <<main_of(MainBody)>>

IsLiteral(e) == e.tag \in {"IntLiteral", "StringLiteral"}

LiteralValue(e) ==
    IF e.tag = "IntLiteral" THEN [tag |-> "int", value |-> e.value]
                            ELSE [tag |-> "str", value |-> e.value]

\* C10 amended: parameter i is bound to the value of argument i for every i
\* whose name is not declared again at a later position (of a repeated name
\* the last argument is the one bound); the value of the call is the value
\* of the body under those bindings: second(a, b) yields b, first(a, b) and
\* identity(a) yield a, foo() yields 42.
C10_BindsParameters ==
    /\ EnteredWithArgs =>
          /\ ret.expr = Callee.body
          /\ ret.contexts = Rest(prev.contexts)
          /\ Len(ArgValues) = Len(Callee.params)
          /\ \A i \in DOMAIN Callee.params :
                LastOfItsName(Callee, i) =>
                    ret.env.bindings[Callee.params[i]] = ArgValues[i]
    /\ EnteredNullary =>
          /\ ret.expr = Callee.body
          /\ ret.contexts = prev.contexts
          /\ Callee.params = <<>>
    /\ (/\ state.tag = "Done"
        /\ UsesLibrary
        /\ MainBody.tag = "FunctionCall"
        /\ \A i \in DOMAIN MainBody.args : IsLiteral(MainBody.args[i])) =>
          CASE MainBody.func_name = "second" -> state.value = LiteralValue(MainBody.args[2])
            [] MainBody.func_name = "first" -> state.value = LiteralValue(MainBody.args[1])
            [] MainBody.func_name = "identity" -> state.value = LiteralValue(MainBody.args[1])
            [] MainBody.func_name = "foo" -> state.value = [tag |-> "int", value |-> 42]
            [] OTHER -> TRUE

C10_Witness ==
    /\ EnteredWithArgs
    /\ Callee.name = "second"
    /\ ArgValues = <<[tag |-> "int", value |-> 10], [tag |-> "str", value |-> "hello"]>>
    /\ ret.env.bindings["x"].value = 10
    /\ ret.env.bindings["y"].value = "hello"

(***************************************************************************)
(* C11.  Truthiness and branch selection.                                  *)
(***************************************************************************)
\* A nonzero integer or a non-empty string.
SelectsThen(v) ==
    \/ v.tag = "int" /\ v.value # 0
    \/ v.tag = "str" /\ v.value # ""

\* The integer 0 or the empty string.
SelectsElse(v) ==
    \/ v.tag = "int" /\ v.value = 0
    \/ v.tag = "str" /\ v.value = ""

\* The main body is if(c, 42, 99) over a literal c, or the same with c
\* first bound to x by a let.
ConditionOfMain ==
    IF /\ MainBody.tag = "IfExpr"
       /\ IsLiteral(MainBody.condition)
       /\ MainBody.then_expr = IntLiteral(42)
       /\ MainBody.else_expr = IntLiteral(99)
    THEN MainBody.condition
    ELSE IF /\ MainBody.tag = "LetExpr"
            /\ Len(MainBody.bindings) = 1
            /\ IsLiteral(MainBody.bindings[1].value)
            /\ MainBody.body = IfExpr(Variable(MainBody.bindings[1].name),
                                      IntLiteral(42), IntLiteral(99))
    THEN MainBody.bindings[1].value
    ELSE None

\* C11: when the value v of a condition reaches its if, whether v is a
\* literal (0 and "" included) or the value of a variable, evaluation goes
\* on with the then branch if v is a nonzero integer or a non-empty string
\* and with the else branch if v is 0 or "", in the same environment and
\* under the remaining contexts; if(c, 42, 99) ends in 42 or 99 accordingly.
C11_BranchSelection ==
    /\ DeliveredTo("IfContext") =>
          /\ SelectsThen(ValueOf(prev)) =>
                ret = Computing(prev.env, prev.contexts[1].then_expr, Rest(prev.contexts))
          /\ SelectsElse(ValueOf(prev)) =>
                ret = Computing(prev.env, prev.contexts[1].else_expr, Rest(prev.contexts))
    /\ (SteppedComputing /\ IsLiteral(prev.expr) /\ prev.contexts # <<>>
          /\ prev.contexts[1].tag = "IfContext") => ret.tag = "Computing"
    /\ (ConditionOfMain # None /\ IsState(state) /\ state.tag = "Done") =>
          /\ SelectsThen(LiteralValue(ConditionOfMain)) => state.value = IntV(42)
          /\ SelectsElse(LiteralValue(ConditionOfMain)) => state.value = IntV(99)

C11_Witness ==
    /\ DeliveredTo("IfContext")
    /\ prev.expr.tag = "IntLiteral"
    /\ prev.expr.value = 0
    /\ ret.tag = "Computing"
    /\ ret.expr = prev.contexts[1].else_expr

(***************************************************************************)
(* C12.  Binding scope of let.                                             *)
(***************************************************************************)
\* The last call delivered the value of the last binding of the let that is
\* the main body: the body of that let starts in ret.
StartedBodyOfMainLet ==
    /\ UsesLibrary
    /\ MainBody.tag = "LetExpr"
    /\ MainBody.bindings # <<>>
    /\ DeliveredTo("LetContext")
    /\ Len(prev.contexts) = 1
    /\ prev.contexts[1].remaining_bindings = <<>>
    /\ prev.contexts[1].body = MainBody.body
    /\ prev.contexts[1].var_name = MainBody.bindings[Len(MainBody.bindings)].name
    /\ ret.tag = "Computing"

\* Binding i of the let is the last one of its name in the list.
LastBindingOfItsName(bindings, i) ==
    \A j \in DOMAIN bindings : j > i => bindings[j].name # bindings[i].name

\* C12: the body of let([(n1,e1)..(nk,ek)], body) starts in an environment
\* where every ni is bound to the value of ei, a later binding of the same
\* name in the list overriding an earlier one (stated for the ei that are
\* literals, whose value is the literal's); let x = 10 in x ends Done(10)
\* and let x = 10, y = 20 in y ends Done(20).
C12_BodySeesEveryBinding ==
    /\ StartedBodyOfMainLet =>
          /\ ret.expr = MainBody.body
          /\ \A i \in DOMAIN MainBody.bindings :
                (IsLiteral(MainBody.bindings[i].value)
                    /\ LastBindingOfItsName(MainBody.bindings, i)) =>
                    /\ MainBody.bindings[i].name \in DOMAIN ret.env.bindings
                    /\ ret.env.bindings[MainBody.bindings[i].name]
                          = LiteralValue(MainBody.bindings[i].value)
    /\ (UsesLibrary /\ IsState(state) /\ state.tag = "Done") =>
          /\ MainBody = Let1("x", IntLiteral(10), Variable("x")) => state.value = IntV(10)
          /\ MainBody = LetExpr(<<LetBinding("x", IntLiteral(10)),
                                  LetBinding("y", IntLiteral(20))>>, Variable("y"))
                => state.value = IntV(20)

(***************************************************************************)
(* C13.  Sequential let.                                                   *)
(***************************************************************************)
\* The last call delivered the value of a binding that is not the last of
\* its let: the value expression of the next binding starts in ret.
StartedNextBinding ==
    /\ DeliveredTo("LetContext")
    /\ prev.contexts[1].remaining_bindings # <<>>

\* The names bound by the bindings of the main body's let that come before
\* the one whose value expression starts in ret.
EarlierNamesOfMainLet ==
    LET k == Len(MainBody.bindings)
        i == k - Len(prev.contexts[1].remaining_bindings) + 1
    IN {MainBody.bindings[j].name : j \in 1..(i - 1)}

SteppedUnboundVariable ==
    /\ SteppedComputing
    /\ prev.expr.tag = "Variable"
    /\ prev.expr.name \notin DOMAIN prev.env.bindings

\* C14: a step on a Computing state whose expression is a variable absent
\* from the bindings raises the undefined-variable error naming it and
\* yields no successor, the caller staying where it was, whatever contexts
\* are pending.
C14_UndefinedVariable ==
    SteppedUnboundVariable =>
        /\ ret = RuntimeError("Undefined variable: " \o prev.expr.name)
        /\ state = prev

C14_Witness ==
    /\ SteppedUnboundVariable
    /\ prev.contexts # <<>>
    /\ prev.contexts[1].tag = "FunctionCallContext"
    /\ IsError(ret)

(***************************************************************************)
(* C15.  Undefined function.                                               *)
(***************************************************************************)
\* The last call stepped a Computing state whose expression is a call
\* without arguments.
ReachedNullaryCall ==
    /\ SteppedComputing
    /\ prev.expr.tag = "FunctionCall"
    /\ prev.expr.args = <<>>

\* The last call stepped a Computing state whose expression is a call
\* with arguments.
ReachedCallWithArgs ==
    /\ SteppedComputing
    /\ prev.expr.tag = "FunctionCall"
    /\ prev.expr.args # <<>>

\* The last call delivered the value of the last argument of a call.
DeliveredLastArg ==
    /\ DeliveredTo("FunctionCallContext")
    /\ prev.contexts[1].remaining_args = <<>>

\* The name called at the point where the call is performed.
CalledName ==
    IF ReachedNullaryCall THEN prev.expr.func_name ELSE prev.contexts[1].func_name

\* C15: a call to a name that is not in the function table raises the
\* undefined-function error naming it and leaves the caller where it was:
\* at the step that reaches the call when it has no arguments, and at the
\* step that delivers the last argument value when it has some (the step
\* that reaches such a call starts its first argument); no body is ever
\* started for an unknown name.
C15_UndefinedFunction ==
    /\ ((ReachedNullaryCall \/ DeliveredLastArg)
          /\ CalledName \notin DOMAIN prev.env.functions) =>
          /\ ret = RuntimeError("Undefined function: " \o CalledName)
          /\ state = prev
    /\ ReachedCallWithArgs =>
          /\ ret.tag = "Computing"
          /\ ret.expr = prev.expr.args[1]
    /\ (EnteredNullary \/ EnteredWithArgs) => CalledName \in DOMAIN prev.env.functions

C15_Witness ==
    /\ DeliveredLastArg
    /\ prev.contexts[1].func_name = "undefined"
    /\ prev.contexts[1].evaluated_args # <<>>
    /\ IsError(ret)

(***************************************************************************)
(* C16.  Arity mismatch.                                                   *)
(***************************************************************************)
\* How many arguments the call being performed supplies.
Supplied ==
    IF ReachedNullaryCall THEN 0 ELSE Len(prev.contexts[1].evaluated_args) + 1

\* How many parameters the function called declares.
Declared == Len(prev.env.functions[CalledName].params)

\* A count as the error message shows it.
CountText(n) ==
    CASE n = 0 -> "0"
      [] n = 1 -> "1"
      [] n = 2 -> "2"
      [] n = 3 -> "3"

\* C16: a call that supplies k arguments to a defined function declaring p
\* parameters raises the arity error when k # p (none to a function with
\* parameters, some to a function without, too many, too few), the caller
\* staying where it was, and starts the function's body only when k = p.
C16_ArityMismatch ==
    ((ReachedNullaryCall \/ DeliveredLastArg)
        /\ CalledName \in DOMAIN prev.env.functions) =>
        /\ Supplied # Declared =>
              /\ ret = RuntimeError("Function " \o CalledName \o " expects "
                                    \o CountText(Declared) \o " arguments, got "
                                    \o CountText(Supplied))
              /\ state = prev
        /\ Supplied = Declared =>
              /\ ret.tag = "Computing"
              /\ ret.expr = prev.env.functions[CalledName].body

C16_Witness ==
    /\ DeliveredLastArg
    /\ CalledName \in DOMAIN prev.env.functions
    /\ Supplied = 2
    /\ Declared = 1
    /\ IsError(ret)

(***************************************************************************)
(* C17.  create_initial_state.                                             *)
(***************************************************************************)
\* Where the loaded program defines a function named main.
MainIndices == {i \in DOMAIN program.functions : program.functions[i].name = "main"}

\* Its main: the first of them in source order.
FirstMain ==
    program.functions[CHOOSE i \in MainIndices : \A j \in MainIndices : i <= j]

\* The table holds the program's functions under their names: one entry
\* for every name defined, each a definition of that name in the program.
HoldsFunctionsOf(table, prog) ==
    /\ DOMAIN table = {prog.functions[i].name : i \in DOMAIN prog.functions}
    /\ \A n \in DOMAIN table :
          \E i \in DOMAIN prog.functions :
              prog.functions[i].name = n /\ prog.functions[i] = table[n]

\* C17: create_initial_state fails with an error when the program has no
\* function named main (a program without functions included) or when its
\* main declares parameters, and nothing is loaded then; otherwise it
\* returns the Computing state with no bindings, the program's functions as
\* function table, the body of main as expression and no contexts.
C17_InitialState ==
    op = "create_initial_state" =>
        /\ MainIndices = {} =>
              /\ ret = RuntimeError("Program must have a main function")
              /\ state = None
        /\ (MainIndices # {} /\ FirstMain.params # <<>>) =>
              /\ ret = RuntimeError("Main function must take no parameters")
              /\ state = None
        /\ (MainIndices # {} /\ FirstMain.params = <<>>) =>
              /\ ret.tag = "Computing"
              /\ ret.env.bindings = EmptyDict
              /\ HoldsFunctionsOf(ret.env.functions, program)
              /\ ret.expr = FirstMain.body
              /\ ret.contexts = <<>>
              /\ state = ret

C17_Witness ==
    /\ op = "create_initial_state"
    /\ program.functions = <<>>
    /\ IsError(ret)

(***************************************************************************)
(* C18.  Several functions named main.                                     *)
(***************************************************************************)
\* C18: when the program defines main more than once, the definition that
\* comes first in source order is the entry point: create_initial_state
\* fails exactly when that one declares parameters, whatever the later
\* ones declare, and the expression of the initial state is its body; the
\* program main = 7, main = 10 ends Done(7).
C18_FirstMainWins ==
    /\ (op = "create_initial_state" /\ Cardinality(MainIndices) > 1) =>
          \A i \in MainIndices :
              (\A j \in MainIndices : i <= j) =>
                  /\ IsError(ret) <=> program.functions[i].params # <<>>
                  /\ IsState(ret) <=> program.functions[i].params = <<>>
                  /\ IsState(ret) => ret.expr = program.functions[i].body
    /\ (program = Program(<<main_of(IntLiteral(7)), main_of(IntLiteral(10))>>)
          /\ IsState(state) /\ state.tag = "Done") => state.value = IntV(7)

C18_Witness ==
    /\ op = "create_initial_state"
    /\ Cardinality(MainIndices) > 1
    /\ FirstMain.body = IntLiteral(10)
    /\ program.functions[2].params # <<>>
    /\ IsState(ret)
    /\ ret.expr = IntLiteral(10)

(***************************************************************************)
(* C19.  Env.extend.                                                       *)
(***************************************************************************)
\* Everything that was in memory before the last call is as it was.
NothingModified ==
    /\ Len(heap) >= Len(call.before)
    /\ \A ref \in DOMAIN call.before : heap[ref] = call.before[ref]

\* C19: extend(name, value) returns a new Env in which name is bound to
\* value and every other name is bound, to the same value, exactly if it
\* was bound in the Env extend was called on, with the same function
\* table; no dict that existed before the call is modified, so the Env it
\* was called on, and every Env made earlier, stands for the same
\* environment as before.  The environments involved are related as the
\* operator extend says.
C19_ExtendIsPure ==
    call.tag = "extend" =>
        LET old == call.before[call.self.bindings]
            new == heap[call.result.bindings]
        IN /\ call.result = Env(call.result.bindings, call.self.functions)
           /\ call.name \in DOMAIN new
           /\ new[call.name] = call.value
           /\ \A m \in (DOMAIN new \cup DOMAIN old) \ {call.name} :
                 m \in DOMAIN new /\ m \in DOMAIN old /\ new[m] = old[m]
           /\ NothingModified
           /\ Deref(heap, call.self) = Deref(call.before, call.self)
           /\ \A i \in DOMAIN envs :
                 i < Len(envs) => Deref(heap, envs[i]) = Deref(call.before, envs[i])
           /\ Deref(heap, call.result)
                 = extend(Deref(call.before, call.self), call.name, call.value)

C19_Witness ==
    /\ call.tag = "extend"
    /\ call.name \in DOMAIN call.before[call.self.bindings]
    /\ call.before[call.self.bindings][call.name] # call.value
    /\ heap[call.self.bindings][call.name] # call.value
    /\ heap[call.result.bindings][call.name] = call.value
    /\ Len(envs) = 3

(***************************************************************************)
(* C20.  Env.extend_many.                                                  *)
(***************************************************************************)
\* The smaller of two numbers.
Min(a, b) == IF a < b THEN a ELSE b

\* extend applied to the pairs (names[i], values[i]), ..., (names[k], values[k])
\* in this order.
RECURSIVE ExtendEach(_, _, _, _, _)
ExtendEach(env, names, values, i, k) ==
    IF i > k THEN env
    ELSE ExtendEach(extend(env, names[i], values[i]), names, values, i + 1, k)

\* C20: extend_many(names, values) returns an Env that stands for the
\* environment obtained by applying extend to the pairs (names[i],
\* values[i]) in order, for i up to the shorter of the two lengths; what
\* the longer list holds beyond is ignored, and of a name that occurs
\* twice among the pairs the later value is the one bound; nothing that
\* existed is modified.
C20_ExtendManyIsExtendEach ==
    call.tag = "extend_many" =>
        LET k == Min(Len(call.names), Len(call.values))
            old == call.before[call.self.bindings]
            new == heap[call.result.bindings]
            used == {call.names[i] : i \in 1..k}
        IN /\ Deref(heap, call.result)
                 = ExtendEach(Deref(call.before, call.self), call.names, call.values, 1, k)
           /\ DOMAIN new = DOMAIN old \cup used
           /\ \A i \in 1..k :
                 (\A j \in 1..k : j > i => call.names[j] # call.names[i])
                     => new[call.names[i]] = call.values[i]
           /\ \A m \in DOMAIN old \ used : new[m] = old[m]
           /\ call.result.functions = call.self.functions
           /\ NothingModified

C20_Witness ==
    /\ call.tag = "extend_many"
    /\ Len(call.names) < Len(call.values)
    /\ Len(call.names) = 2
    /\ call.names[1] = call.names[2]
    /\ call.values[1] # call.values[2]
    /\ heap[call.result.bindings][call.names[1]] = call.values[2]

(***************************************************************************)
(* C21.  Tail calls cost no context-stack depth.                           *)
(***************************************************************************)
\* C21: the body of a call starts on the context stack that was pending
\* around the call: the stack of the call expression itself for a call
\* without arguments, and for a call with arguments the stack under the
\* frame that collected them; no frame stays for the call.  So loop(),
\* whose body is loop(), runs on the empty stack at every step, and
\* spin(7), whose body is spin(x), never has more than the one frame that
\* collects its argument.
C21_TailCallsCostNoDepth ==
    /\ EnteredNullary => ret.contexts = prev.contexts
    /\ EnteredWithArgs => ret.contexts = Rest(prev.contexts)
    /\ (MainBody = Call0("loop") /\ IsState(state)) =>
          (state.tag = "Computing" /\ state.contexts = <<>>)
    /\ (MainBody = Call1("spin", IntLiteral(7)) /\ IsState(state)) =>
          (state.tag = "Computing" /\ Len(state.contexts) <= 1)

C21_Witness ==
    /\ MainBody = Call0("loop")
    /\ EnteredNullary
    /\ steps >= 10
    /\ ret.contexts = <<>>

(***************************************************************************)
(* C22.  The function table is constant over a run.                        *)
(***************************************************************************)
\* st holds an environment: it is Computing, or Interop with a Computing
\* continuation.
HoldsEnv(st) ==
    \/ st.tag = "Computing"
    \/ st.tag = "Interop" /\ st.continuation.tag = "Computing"

\* That environment.
EnvOf(st) == IF st.tag = "Computing" THEN st.env ELSE st.continuation.env

\* C22: the environment of every state reached from create_initial_state by
\* step and step_with_syscall, the continuation of an Interop state
\* included, has the function table built when the program was loaded, and
\* every call hands the table of the state it was given on to the state it
\* returns.
C22_FunctionTableConstant ==
    /\ (IsState(state) /\ HoldsEnv(state)) =>
          EnvOf(state).functions = func_map_of(program)
    /\ (Called /\ HoldsEnv(prev) /\ IsState(ret) /\ HoldsEnv(ret)) =>
          EnvOf(ret).functions = EnvOf(prev).functions

C22_Witness ==
    /\ Resumed
    /\ prev.syscall.tag = "AskCall"
    /\ IsState(ret)
    /\ ret.tag = "Computing"
    /\ steps >= 4
    /\ "x" \in DOMAIN ret.env.bindings
    /\ ret.env.functions = func_map_of(program)
    /\ "identity" \in DOMAIN ret.env.functions

(***************************************************************************)
(* C23.  An error aborts the step with no partial effect.                  *)
(***************************************************************************)
\* The last call performed a call of a name the function table lacks.
CalledUnknown ==
    /\ ReachedNullaryCall \/ DeliveredLastArg
    /\ CalledName \notin DOMAIN prev.env.functions

\* The last call performed a call with the wrong number of arguments.
CalledWithWrongCount ==
    /\ ReachedNullaryCall \/ DeliveredLastArg
    /\ CalledName \in DOMAIN prev.env.functions
    /\ Supplied # Declared

\* The last call raised, for one of the three reasons, on a Computing state,
\* and left the caller and the handler alone.
RaisedCleanly ==
    /\ prev.tag = "Computing"
    /\ state = prev
    /\ handler_calls = <<>>
    /\ \/ SteppedUnboundVariable
          /\ ret = RuntimeError("Undefined variable: " \o prev.expr.name)
       \/ CalledUnknown
          /\ ret = RuntimeError("Undefined function: " \o CalledName)
       \/ CalledWithWrongCount
          /\ ret = RuntimeError("Function " \o CalledName \o " expects "
                                \o CountText(Declared) \o " arguments, got "
                                \o CountText(Supplied))

\* C23: a step that meets an unbound variable, an unknown function or a
\* wrong argument count raises and returns no state (never Done, never
\* Interop), and a step raises for no other reason; the call that raises
\* changes neither the caller's state nor the record of handled system
\* calls, and the next call on that state raises the same error again.
C23_ErrorsAbortTheStep ==
    /\ [](Called =>
            /\ IsError(ret) => RaisedCleanly
            /\ (SteppedUnboundVariable \/ CalledUnknown \/ CalledWithWrongCount)
                  => IsError(ret))
    /\ [][(op' \in {"step", "step_with_syscall"} /\ IsError(ret')) =>
            (state' = state /\ effects' = effects /\ steps' = steps)]_vars
    /\ [][(Called /\ IsError(ret) /\ op' \in {"step", "step_with_syscall"}) =>
            (ret' = ret /\ state' = state)]_vars

C23_Witness ==
    /\ Called
    /\ IsError(ret)
    /\ CalledUnknown
    /\ effects # <<>>
    /\ state = prev

(***************************************************************************)
(* C24.  What a later binding of a let sees.                               *)
(***************************************************************************)
\* let x = 10, y = x in y, and the same with the lets nested.
FlatLetXY ==
    LetExpr(<<LetBinding("x", IntLiteral(10)), LetBinding("y", Variable("x"))>>,
            Variable("y"))

NestedLetXY == Let1("x", IntLiteral(10), Let1("y", Variable("x"), Variable("y")))

\* The last call stepped the value expression x of the binding of y.
SteppedValueOfY ==
    /\ SteppedComputing
    /\ prev.expr = Variable("x")
    /\ prev.contexts # <<>>
    /\ prev.contexts[1].tag = "LetContext"
    /\ prev.contexts[1].var_name = "y"

FirstDefinition(n) ==
    LET idx == {i \in DOMAIN program.functions : program.functions[i].name = n}
    IN program.functions[CHOOSE i \in idx : \A j \in idx : i <= j]

\* C25: whenever a call is performed, the body that starts is the body of
\* the first definition of the called name in source order, also when the
\* name is defined again later; a call of main runs the main the initial
\* state started from, and main = foo() with foo = 42 and then foo = 7
\* ends Done(42).
C25_FirstDefinitionIsCalled ==
    /\ (EnteredNullary \/ EnteredWithArgs) =>
          ret.expr = FirstDefinition(CalledName).body
    /\ ((EnteredNullary \/ EnteredWithArgs) /\ CalledName = "main") =>
          ret.expr = MainBody
    /\ (program = Program(<<main_of(Call0("foo")), foo_func,
                           FunctionDef("foo", <<>>, IntLiteral(7))>>)
          /\ IsState(state) /\ state.tag = "Done") => state.value = IntV(42)

(***************************************************************************)
(* C26.  Effects are requested in left-to-right order.                     *)
(***************************************************************************)
\* The system calls requested so far: those handled, then the pending one.
Requested ==
    [i \in DOMAIN effects |-> effects[i].syscall]
    \o (IF IsState(state) /\ state.tag = "Interop" THEN <<state.syscall>> ELSE <<>>)

\* A request expected of an effect form: its kind, and its text where the
\* argument is a literal.
Expect(kind, arg) ==
    [kind |-> kind, known |-> IsLiteral(arg),
     text |-> IF IsLiteral(arg) THEN TextOf(LiteralValue(arg)) ELSE ""]

\* A prediction: the requests in order, and whether nothing follows them.
Prediction(reqs, complete) == [reqs |-> reqs, complete |-> complete]

Then(a, b) ==
    IF a.complete THEN Prediction(a.reqs \o b.reqs, b.complete) ELSE a

\* No function of the loaded program is defined twice.
NoDuplicateNames ==
    \A i, j \in DOMAIN program.functions :
        program.functions[i].name = program.functions[j].name => i = j

\* The definitions of name n in the loaded program.
Definitions(n) ==
    {f \in {program.functions[i] : i \in DOMAIN program.functions} : f.name = n}

\* The requests of expression e read left to right: those of the arguments
\* of a call in order and then those of the callee's body (followed d calls
\* deep), those of the bindings of a let in order and then those of its
\* body, those of the argument of an effect form and then its own.  After
\* the condition of an if, and after a call that fails, nothing is
\* predicted.
RECURSIVE Requests(_, _)
RECURSIVE RequestsOfEach(_, _, _)
Requests(e, d) ==
    CASE e.tag \in {"IntLiteral", "StringLiteral", "Variable"} -> Prediction(<<>>, TRUE)
      [] e.tag = "ReadExpr" ->
            Prediction(<<[kind |-> "ReadCall", known |-> FALSE, text |-> ""]>>, TRUE)
      [] e.tag = "WriteExpr" ->
            Then(Requests(e.expr, d), Prediction(<<Expect("WriteCall", e.expr)>>, TRUE))
      [] e.tag = "TellExpr" ->
            Then(Requests(e.expr, d), Prediction(<<Expect("TellCall", e.expr)>>, TRUE))
      [] e.tag = "AskExpr" ->
            Then(Requests(e.expr, d), Prediction(<<Expect("AskCall", e.expr)>>, TRUE))
      [] e.tag = "IfExpr" ->
            Then(Requests(e.condition, d), Prediction(<<>>, FALSE))
      [] e.tag = "LetExpr" ->
            Then(RequestsOfEach([i \in DOMAIN e.bindings |-> e.bindings[i].value], 1, d),
                 Requests(e.body, d))
      [] e.tag = "FunctionCall" ->
            Then(RequestsOfEach(e.args, 1, d),
                 IF d = 0 \/ Definitions(e.func_name) = {} THEN Prediction(<<>>, FALSE)
                 ELSE LET f == CHOOSE g \in Definitions(e.func_name) : TRUE
                      IN IF Len(f.params) # Len(e.args) THEN Prediction(<<>>, FALSE)
                         ELSE Requests(f.body, d - 1))

RequestsOfEach(es, i, d) ==
    IF i > Len(es) THEN Prediction(<<>>, TRUE)
    ELSE Then(Requests(es[i], d), RequestsOfEach(es, i + 1, d))

\* The text a request carries.
TextIn(syscall) ==
    IF syscall.tag = "AskCall" THEN syscall.question
    ELSE IF syscall.tag = "ReadCall" THEN "" ELSE syscall.text

\* Request i of the run is the one predicted at position i.
AsPredicted(p, i) ==
    /\ Requested[i].tag = p.reqs[i].kind
    /\ p.reqs[i].known => TextIn(Requested[i]) = p.reqs[i].text

\* How deep the prediction follows calls.
CallDepth == 2

\* C26: the system calls of a run are requested in the order in which
\* their effect forms stand when the main body is read left to right: the
\* effects of argument i of a call before those of argument j > i and all
\* of them before those of the callee's body, the effects of binding i of
\* a let before those of binding i+1 and those of the body; no request is
\* made beyond them, and a run that ends Done has made them all.
C26_EffectsLeftToRight ==
    (NoDuplicateNames /\ MainBody # None /\ IsState(state)) =>
        LET p == Requests(MainBody, CallDepth)
        IN /\ \A i \in DOMAIN Requested : i <= Len(p.reqs) => AsPredicted(p, i)
           /\ p.complete => Len(Requested) <= Len(p.reqs)
           /\ (p.complete /\ state.tag = "Done") => Len(effects) = Len(p.reqs)

C26_Witness ==
    /\ MainBody = Call2("report", TellExpr(StringLiteral("hello")), ReadExpr)
    /\ IsState(state)
    /\ state.tag = "Interop"
    /\ Len(effects) = 2
    /\ effects[1].syscall = TellCall("hello")
    /\ effects[2].syscall.tag = "ReadCall"
    /\ state.syscall.tag = "WriteCall"

(***************************************************************************)
(* C27.  An if evaluates its condition, then only the selected branch.     *)
(***************************************************************************)
\* e is one effect form over a literal.
IsEffectOnLiteral(e) ==
    /\ e.tag \in {"WriteExpr", "TellExpr", "AskExpr"}
    /\ IsLiteral(e.expr)

\* The main body is an if whose branches are each one effect form over a
\* literal, and whose condition is a literal or an effect form that yields
\* the text its handler returns.
IfOverEffects ==
    /\ UsesLibrary
    /\ MainBody.tag = "IfExpr"
    /\ IsEffectOnLiteral(MainBody.then_expr)
    /\ IsEffectOnLiteral(MainBody.else_expr)
    /\ IsLiteral(MainBody.condition) \/ MainBody.condition.tag \in {"ReadExpr", "AskExpr"}

\* The requests of the condition.
OfCondition == Requests(MainBody.condition, CallDepth)

\* The value of the condition, once its requests are handled.
ConditionValue ==
    IF IsLiteral(MainBody.condition) THEN LiteralValue(MainBody.condition)
    ELSE StrV(effects[Len(OfCondition.reqs)].result)

\* The request of the branch which that value selects.
OfSelectedBranch ==
    IF SelectsThen(ConditionValue)
    THEN Requests(MainBody.then_expr, CallDepth)
    ELSE Requests(MainBody.else_expr, CallDepth)

\* C27: in a run of if(c, t, e) the requests of c come first, in their
\* order; after they are all handled exactly one more request is made, the
\* one of the branch the value of c selects (t for a nonzero integer or a
\* non-empty string, e otherwise); the request of the other branch is never
\* made, and the run ends after the selected one.
C27_OnlySelectedBranch ==
    (IfOverEffects /\ IsState(state)) =>
        LET n == Len(OfCondition.reqs)
        IN /\ \A i \in DOMAIN Requested : i <= n => AsPredicted(OfCondition, i)
           /\ Len(Requested) <= n + 1
           /\ Len(Requested) = n + 1 =>
                 /\ Len(effects) >= n
                 /\ Requested[n + 1].tag = OfSelectedBranch.reqs[1].kind
                 /\ TextIn(Requested[n + 1]) = OfSelectedBranch.reqs[1].text
           /\ state.tag = "Done" => Len(effects) = n + 1

C27_Witness ==
    /\ IfOverEffects
    /\ MainBody.condition = AskExpr(ReadExpr)
    /\ IsState(state)
    /\ state.tag = "Interop"
    /\ Len(effects) = 2
    /\ effects[2].result = ""
    /\ state.syscall = TellCall("hello")

(***************************************************************************)
(* C28.  Stack discipline.                                                 *)
(***************************************************************************)
\* The context stack a state carries.
ContextsOf(st) ==
    IF st.tag = "Computing" THEN st.contexts
    ELSE IF st.tag = "Interop" /\ st.continuation.tag = "Computing"
    THEN st.continuation.contexts
    ELSE <<>>

\* s is the end of t, frame for frame.
IsSuffix(s, t) ==
    /\ Len(s) <= Len(t)
    /\ SubSeq(t, Len(t) - Len(s) + 1, Len(t)) = s

\* C28: a step on Computing(env, e, S) whose e has no value yet leaves S in
\* place, unchanged, under at most one new frame; a step whose e has a
\* value consumes the first frame of S only and passes the rest of S on
\* unchanged, under at most one new frame, or ends Done when S is empty;
\* resuming an Interop state keeps the continuation's stack.  So the frames
\* under the top one are never modified, reordered or popped, and a frame
\* pushed later is resumed before one pushed earlier.
C28_StackDiscipline ==
    /\ (SteppedComputing /\ IsState(ret) /\ ~HasValue(prev)) =>
          /\ IsSuffix(prev.contexts, ContextsOf(ret))
          /\ Len(ContextsOf(ret)) <= Len(prev.contexts) + 1
          /\ ret.tag # "Done"
    /\ (SteppedComputing /\ IsState(ret) /\ HasValue(prev) /\ prev.contexts # <<>>) =>
          /\ IsSuffix(Rest(prev.contexts), ContextsOf(ret))
          /\ Len(ContextsOf(ret)) <= Len(prev.contexts)
          /\ ret.tag # "Done"
    /\ (SteppedComputing /\ HasValue(prev) /\ prev.contexts = <<>>) =>
          ret = Done(ValueOf(prev))
    /\ (Resumed /\ IsState(ret)) => ContextsOf(ret) = ContextsOf(prev)

C28_Witness ==
    /\ DeliveredTo("LetContext")
    /\ Len(prev.contexts) >= 2
    /\ prev.contexts[2].tag = "FunctionCallContext"
    /\ IsState(ret)
    /\ ContextsOf(ret) = Rest(prev.contexts)

(***************************************************************************)
(* C29.  Progress of Computing.                                            *)
(***************************************************************************)
\* The ten forms of expression.
ExpressionForms ==
    {"IntLiteral", "StringLiteral", "Variable", "FunctionCall", "IfExpr", "LetExpr",
     "WriteExpr", "ReadExpr", "TellExpr", "AskExpr"}

\* C29: a step on a Computing state, whose expression is one of the ten
\* forms, never returns None: it returns a state or raises, and it raises
\* only for an unbound variable, an unknown function or a wrong argument
\* count.  So a driver that calls step on Computing states and
\* step_with_syscall with a handler on Interop states is answered None only
\* on a Done state.
C29_ComputingProgresses ==
    /\ SteppedComputing =>
          /\ prev.expr.tag \in ExpressionForms
          /\ ret # None
          /\ IsState(ret) \/ IsError(ret)
          /\ IsError(ret) =>
                (SteppedUnboundVariable \/ CalledUnknown \/ CalledWithWrongCount)
    /\ (Called /\ ret = None) =>
          \/ prev.tag = "Done"
          \/ prev.tag = "Interop" /\ (op = "step" \/ handler = NoHandler)

C29_Witness ==
    /\ op = "step_with_syscall"
    /\ handler # NoHandler
    /\ prev.tag = "Done"
    /\ ret = None
    /\ Len(effects) >= 2

(***************************************************************************)
(* C30.  Shape of blocked states.                                          *)
(***************************************************************************)
\* The environment env with name bound to the empty string.
WithEmpty(env, name) ==
    [bindings |-> [n \in DOMAIN env.bindings \cup {name} |->
                      IF n = name THEN StrV("") ELSE env.bindings[n]],
     functions |-> env.functions]

\* C30: the continuation of every Interop state reached is a Computing
\* state.  For a read or an ask its expression is the variable the request
\* names and its environment binds that variable to the empty string; for
\* a write or a tell its expression is the literal "" and its environment
\* is the one the argument's value was delivered in.  The environment of
\* the step that made the request is otherwise kept, and the continuation
\* resumes on the stack pending around the effect form.
C30_BlockedStates ==
    /\ (IsState(state) /\ state.tag = "Interop") =>
          /\ state.continuation.tag = "Computing"
          /\ state.syscall.tag \in {"ReadCall", "AskCall"} =>
                /\ state.continuation.expr = Variable(state.syscall.var)
                /\ state.syscall.var \in DOMAIN state.continuation.env.bindings
                /\ state.continuation.env.bindings[state.syscall.var] = StrV("")
          /\ state.syscall.tag \in {"WriteCall", "TellCall"} =>
                state.continuation.expr = StringLiteral("")
    /\ (SteppedComputing /\ ret.tag = "Interop") =>
          /\ ret.syscall.tag \in {"WriteCall", "TellCall"} =>
                /\ HasValue(prev)
                /\ ret.continuation.env = prev.env
                /\ ret.continuation.contexts = Rest(prev.contexts)
          /\ ret.syscall.tag = "AskCall" =>
                /\ HasValue(prev)
                /\ ret.continuation.env = WithEmpty(prev.env, ret.syscall.var)
                /\ ret.continuation.contexts = Rest(prev.contexts)
          /\ ret.syscall.tag = "ReadCall" =>
                /\ prev.expr = ReadExpr
                /\ ret.continuation.env = WithEmpty(prev.env, ret.syscall.var)
                /\ ret.continuation.contexts = prev.contexts

C30_Witness ==
    /\ IsState(state)
    /\ state.tag = "Interop"
    /\ state.syscall.tag = "TellCall"
    /\ state.continuation.tag = "Computing"
    /\ state.continuation.expr = StringLiteral("")
    /\ state.continuation.contexts # <<>>
    /\ DOMAIN state.continuation.env.bindings # {}

(***************************************************************************)
(* C31.  Bindings only grow along a run.                                   *)
(***************************************************************************)
\* The names bound in the environment a state holds.
BoundIn(st) == DOMAIN EnvOf(st).bindings

\* C31: every step or resumption that leads from a Computing or Interop
\* state to a Computing or Interop state binds, in the state it returns,
\* every name the state it was given binds.  So a name bound by a let, by
\* a call's parameters, or as the temporary of a read or an ask is still
\* bound after the form has produced its value: second(let x = 7 in x, x)
\* and second(identity(7), x) end Done(7), and second(read(),
\* __read_result__) and second(ask("hello"), __ask_result__) end in the
\* text the handler returned.
C31_BindingsOnlyGrow ==
    /\ (Called /\ HoldsEnv(prev) /\ IsState(ret) /\ HoldsEnv(ret)) =>
          BoundIn(prev) \subseteq BoundIn(ret)
    /\ (UsesLibrary /\ IsState(state) /\ state.tag = "Done") =>
          /\ MainBody \in {Call2("second", Let1("x", IntLiteral(7), Variable("x")),
                                 Variable("x")),
                           Call2("second", Call1("identity", IntLiteral(7)), Variable("x"))}
                => state.value = IntV(7)
          /\ MainBody \in {Call2("second", ReadExpr, Variable("__read_result__")),
                           Call2("second", AskExpr(StringLiteral("hello")),
                                 Variable("__ask_result__"))}
                => state.value = StrV(effects[1].result)

C31_Witness ==
    /\ MainBody = Call2("second", Call1("identity", IntLiteral(7)), Variable("x"))
    /\ DeliveredTo("FunctionCallContext")
    /\ prev.contexts[1].func_name = "second"
    /\ prev.contexts[1].remaining_args # <<>>
    /\ ret.tag = "Computing"
    /\ ret.expr = Variable("x")
    /\ "x" \in BoundIn(ret)

(***************************************************************************)
(* C32.  The function is looked up after the arguments.                    *)
(***************************************************************************)
\* The main body of the loaded program calls, with arguments, a name the
\* library does not define or defines with another number of parameters.
MainMiscallsWithArgs ==
    /\ UsesLibrary
    /\ MainBody.tag = "FunctionCall"
    /\ MainBody.args # <<>>
    /\ \A f \in Definitions(MainBody.func_name) : Len(f.params) # Len(MainBody.args)

\* The same for a call without arguments.
MainMiscallsNullary ==
    /\ UsesLibrary
    /\ MainBody.tag = "FunctionCall"
    /\ MainBody.args = <<>>
    /\ \A f \in Definitions(MainBody.func_name) : Len(f.params) # 0

\* The last call raised the undefined-function or the arity error for the
\* call of the main body.
RaisedForMainCall ==
    /\ Called
    /\ IsError(ret)
    /\ \/ ret = RuntimeError("Undefined function: " \o MainBody.func_name)
       \/ \E p \in 0..3 :
             ret = RuntimeError("Function " \o MainBody.func_name \o " expects "
                                \o CountText(p) \o " arguments, got "
                                \o CountText(Len(MainBody.args)))

\* C32: a call with arguments looks its function up and checks the
\* argument count only when the value of the last argument is delivered:
\* when the name is undefined or the count is wrong, the error is raised
\* by that step, after every effect form inside the arguments has been
\* requested and resumed, and no earlier step of the run raises it; a call
\* without arguments raises at the step that reaches it, before any effect.
C32_LookupAfterArguments ==
    /\ (MainMiscallsWithArgs /\ RaisedForMainCall) =>
          LET p == RequestsOfEach(MainBody.args, 1, CallDepth)
          IN /\ DeliveredLastArg
             /\ Len(prev.contexts) = 1
             /\ Len(prev.contexts[1].evaluated_args) + 1 = Len(MainBody.args)
             /\ p.complete =>
                   /\ Len(effects) = Len(p.reqs)
                   /\ \A i \in DOMAIN p.reqs : AsPredicted(p, i)
    /\ (MainMiscallsWithArgs /\ Called /\ IsState(prev) /\ prev.tag = "Computing"
          /\ ~ DeliveredLastArg) => ~ RaisedForMainCall
    /\ (MainMiscallsNullary /\ Called /\ IsState(prev)) =>
          /\ prev = Computing(prev.env, MainBody, <<>>)
          /\ RaisedForMainCall
          /\ effects = <<>>
          /\ steps = 0

C32_Witness ==
    /\ MainBody = Call2("identity", WriteExpr(IntLiteral(10)), AskExpr(StringLiteral("hello")))
    /\ RaisedForMainCall
    /\ Len(effects) = 2
    /\ effects[1].syscall.tag = "WriteCall"
    /\ effects[2].syscall.tag = "AskCall"

(***************************************************************************)
(* C33.  Termination without recursion.                                    *)
(***************************************************************************)
\* The run is over: the state is Done, or the last call raised.
Finished ==
    \/ IsState(state) /\ state.tag = "Done"
    \/ IsError(ret)

\* A driver that loads the program and then keeps calling step_with_syscall
\* with a handler that answers some text, until the state is Done or a call
\* raises.
Drive ==
    /\ ~ Finished
    /\ \E text \in HandlerResults : StepWithSyscall(Handler(text))

DriverNext == CreateInitialState \/ Drive

\* The driver never stops of its own accord while the run is not over.
DriverSpec == Init /\ [][DriverNext]_vars /\ WF_vars(DriverNext)

\* The names called anywhere inside expression e.
RECURSIVE CallsIn(_)
CallsIn(e) ==
    CASE e.tag \in {"IntLiteral", "StringLiteral", "Variable", "ReadExpr"} -> {}
      [] e.tag \in {"WriteExpr", "TellExpr", "AskExpr"} -> CallsIn(e.expr)
      [] e.tag = "IfExpr" ->
            CallsIn(e.condition) \cup CallsIn(e.then_expr) \cup CallsIn(e.else_expr)
      [] e.tag = "LetExpr" ->
            UNION {CallsIn(e.bindings[i].value) : i \in DOMAIN e.bindings}
            \cup CallsIn(e.body)
      [] e.tag = "FunctionCall" ->
            {e.func_name} \cup UNION {CallsIn(e.args[i]) : i \in DOMAIN e.args}

\* The names a definition of name n calls.
CalledBy(n) == UNION {CallsIn(f.body) : f \in Definitions(n)}

\* The names reached from the names in S by one call or more, following at
\* most k calls.
RECURSIVE ReachedFrom(_, _)
ReachedFrom(S, k) ==
    IF k = 0 THEN {}
    ELSE LET next == UNION {CalledBy(n) : n \in S}
         IN next \cup ReachedFrom(next, k - 1)

\* The names the run can call: those called in the main body and those
\* reached from them.
Callable ==
    IF MainBody = None THEN {}
    ELSE CallsIn(MainBody) \cup ReachedFrom(CallsIn(MainBody), Len(program.functions))

\* No function the run can call calls itself, directly or through other
\* functions; this holds of every program whose call graph has no cycle at
\* all, and of those whose cycles cannot be reached from main.
AcyclicCallGraph ==
    \A n \in Callable : n \notin ReachedFrom({n}, Len(program.functions))

\* C33: when the call graph of the program is acyclic, the driver's run
\* ends after finitely many transitions, in Done or in an error; a run that
\* goes on for ever passes through a cycle of function calls.
C33_AcyclicTerminates == AcyclicCallGraph ~> Finished

C33_Witness ==
    /\ AcyclicCallGraph
    /\ MainBody = Call1("identity", Call1("identity", StringLiteral("hello")))
    /\ state = Done(StrV("hello"))
    /\ steps > 0

(***************************************************************************)
(* ChatbotSession (src/agentlisp.py): the session holds the machine state  *)
(* and step_count, and execute_run_tool advances the state in a loop.      *)
(***************************************************************************)
\* The step arguments execute_run_tool is called with.
RunSteps == {-1, 1, 2, 3}

\* handle_syscall_interactively: read returns the line typed, ask the text
\* of the model's reply (or of an error), write and tell the empty string.
handle_syscall_interactively(syscall, text) ==
    IF syscall.tag \in {"ReadCall", "AskCall"} THEN text ELSE ""

\* What the loop of execute_run_tool holds: the session's state and
\* step_count, the local steps_executed, and besides them the states the
\* loop took up, the system calls it handled, the number of calls of
\* step_with_syscall that returned, the exception that left the loop, and
\* whether the caller's step cap cut the loop short.
RunState(st, count) ==
    [state |-> st, step_count |-> count, steps_executed |-> 0,
     passed |-> <<>>, handled |-> <<>>, transitions |-> 0,
     raised |-> None, cut |-> FALSE]

\* A loop condition that allows one transition more.
run_continues_once_more(s, nsteps) ==
    /\ s.state # None
    /\ nsteps = -1 \/ s.steps_executed <= nsteps

\* while self.state is not None and (steps == -1 or steps_executed < steps)
run_continues(s, nsteps) ==
    /\ s.state # None
    /\ nsteps = -1 \/ s.steps_executed < nsteps

\* The Interop branch of the loop: handle the system call, resume the
\* state with its result, count the step.
run_interop(s, text) ==
    LET syscall == s.state.syscall
        result == handle_syscall_interactively(syscall, text)
        o == step_with_syscall(s.state, Handler(result))
    IN [s EXCEPT !.state = o.result,
                 !.step_count = s.step_count + 1,
                 !.steps_executed = s.steps_executed + 1,
                 !.passed = Append(s.passed, s.state),
                 !.handled = Append(s.handled, Effect(syscall, result)),
                 !.transitions = s.transitions + 1]

\* The Computing branch of the loop: step the state without a handler and
\* count the step; an exception of the step leaves the loop before the
\* assignments.
run_computing(s) ==
    LET o == step_with_syscall(s.state, NoHandler)
    IN IF IsError(o.result)
       THEN [s EXCEPT !.raised = o.result, !.passed = Append(s.passed, s.state)]
       ELSE [s EXCEPT !.state = o.result,
                      !.step_count = s.step_count + 1,
                      !.steps_executed = s.steps_executed + 1,
                      !.passed = Append(s.passed, s.state),
                      !.transitions = s.transitions + 1]

\* The loop of execute_run_tool, followed for at most fuel transitions.
RECURSIVE run_loop(_, _, _, _)
run_loop(s, nsteps, text, fuel) ==
    IF ~ run_continues(s, nsteps) THEN s
    ELSE IF s.state.tag = "Done" THEN s
    ELSE IF fuel = 0 THEN [s EXCEPT !.cut = TRUE]
    ELSE IF s.state.tag = "Interop"
    THEN run_loop(run_interop(s, text), nsteps, text, fuel - 1)
    ELSE LET t == run_computing(s)
         IN IF t.raised # None THEN t ELSE run_loop(t, nsteps, text, fuel - 1)

\* execute_run_tool(steps) on a session whose fields are st and count.
execute_run_tool(st, count, nsteps, text, fuel) ==
    IF st = None THEN RunState(st, count)
    ELSE IF st.tag = "Done" THEN RunState(st, count)
    ELSE run_loop(RunState(st, count), nsteps, text, fuel)

\* A call of execute_run_tool on the session made from the program; text is
\* what the user types or the model replies during the call.
ExecuteRunTool(n, text) ==
    /\ IsState(state)
    /\ steps < MaxSteps
    /\ LET r == execute_run_tool(state, step_count, n, text, MaxSteps - steps)
       IN /\ ~ r.cut
          /\ state' = r.state
          /\ step_count' = r.step_count
          /\ run' = [steps |-> n, entry |-> state, entry_count |-> step_count,
                     passed |-> r.passed, handled |-> r.handled,
                     transitions |-> r.transitions, raised |-> r.raised]
          /\ ret' = r.raised
          /\ effects' = effects \o r.handled
          /\ handler_calls' = [i \in DOMAIN r.handled |-> r.handled[i].syscall]
          /\ steps' = steps + r.transitions
    /\ prev' = state
    /\ op' = "execute_run_tool"
    /\ handler' = Handler(text)
    /\ UNCHANGED program
    /\ UNCHANGED env_vars

SessionNext ==
    \/ CreateInitialState
    \/ \E n \in RunSteps, text \in HandlerResults : ExecuteRunTool(n, text)

SessionSpec == Init /\ [][SessionNext]_vars

(***************************************************************************)
(* C34.  The step budget of a session.                                     *)
(***************************************************************************)
\* The last call was execute_run_tool.
RanTool == op = "execute_run_tool"

\* The Interop states the loop of the last call took up, in order.
InteropsPassed == SelectSeq(run.passed, LAMBDA st : st.tag = "Interop")

\* The state the loop held after taking up state number i.
StateAfter(i) == IF i < Len(run.passed) THEN run.passed[i + 1] ELSE state

C35_RunUntilBlocked ==
    (RanTool /\ run.steps = -1 /\ run.raised = None) =>
        /\ state.tag \in {"Interop", "Done"}
        /\ run.handled = <<>>
        /\ \A i \in DOMAIN run.passed : run.passed[i].tag # "Interop"

====
